---------------------------- MODULE Spec2Model ----------------------------
(***************************************************************************)
(* Activity analytics of athlete-insigh: heart-rate zone allocation,       *)
(* relative effort and the timeframe context                               *)
(* (activity_builder_v2/activity_analyzer.py); the max-heart-rate          *)
(* estimators, the effort-level and terrain classifiers                    *)
(* (activity_builder/src/core/story_generator.py); the speed variability   *)
(* of the story generator and of activity_builder/enhanced_analyzer.py.    *)
(*                                                                         *)
(* Numbers.  Heart rates, timestamps and durations are integers (bpm,      *)
(* seconds).  A percentage test  lo <= hr / max_hr < hi  of the source is  *)
(* carried out on integers as  lo*max_hr <= 100*hr < hi*max_hr  (signs     *)
(* respected); for the integer samples and maxima used here the IEEE       *)
(* double quotient compares with the literals 0.50 .. 1.00 exactly as the  *)
(* rational does.  A relative effort is held in tenths of a point.         *)
(***************************************************************************)
EXTENDS Integers, Sequences, FiniteSets, TLC

VARIABLES
    \* ---- ActivityAnalyzer.calculate_hr_zones ----
    heartrate_data,     \* argument heartrate_data: a sequence of bpm samples
    time_data,          \* argument time_data: a sequence of elapsed seconds
    max_hr,             \* self.max_hr of the analyzer
    zones_out,          \* what the call produced: [kind, zones]
    zpc,                \* "call" before the call, "done" after it
    \* ---- ActivityAnalyzer.calculate_relative_effort ----
    zone_durations,     \* argument zone_durations: zone name -> seconds
    relative_effort,    \* the returned score, in tenths of a point
    prev_relative_effort, \* the score returned by the call before this one
    last_added,         \* how the argument grew since then: [zone, seconds]
    epc,                \* "call" before the first call, "scored" after it
    \* ---- the process environment ----
    birth_year,         \* os.getenv('USER_BIRTHYEAR'): [kind, year]
    current_year,       \* datetime.now().year
    \* ---- StravaStoryGenerator ----
    story_max_hr,       \* what _calculate_max_hr returned: [kind, value]
    spc,                \* "call" before that call, "done" after it
    row,                \* the activity row given to _determine_effort_level
    effort_level,       \* the level it returned
    lpc,                \* "call" before that call, "done" after it
    \* ---- activity_analyzer.main ----
    activity_in_index,  \* whether the activity id is in activity_index.json
    analysis,           \* what analyze_activity returned: [kind, hr, ...]
    error,              \* the exception main caught, "" when none
    mpc,                \* "start", "constructed", "exit0", "exit1"
    activity_files,     \* which files of the activity exist
    activity_detail,    \* the activity's detail JSON
    summary_string,     \* what get_summary_string returned, by its parts
    \* ---- StravaStoryGenerator._determine_terrain_type ----
    terrain_row,        \* the activity row given to _determine_terrain_type
    terrain_type,       \* the terrain it returned
    tpc,                \* "call" before that call, "done" after it
    \* ---- _calculate_speed_variability (story generator, enhanced) ----
    distance_data,      \* argument distance_data: metres along the activity
    speed_time_data,    \* argument time_data: elapsed seconds
    story_speeds,       \* the list speeds the story generator built
    story_speed_var,    \* what its _calculate_speed_variability returned
    story_cell,         \* its df cell speed_variability for the activity
    vspc,               \* "call" before _add_stream_analytics, "done" after
    enhanced_speeds,    \* the list speeds the enhanced analyzer built
    enhanced_speed_var, \* what its _calculate_speed_variability returned
    enhanced_cell,      \* its df cell speed_variability after _preprocess_data
    vepc,               \* "call" before _preprocess_data, "done" after
    \* ---- ActivityAnalyzer: the timeframe context ----
    activity_index,     \* self.activity_index: the activities of the index
    target_date,        \* target_activity['date'], the anchor's date
    timeframe,          \* 'week', 'month' or 'year'
    max_activities,     \* the cap: [given, n] (None is not given)
    filtered_activities, \* what get_activities_by_timeframe returned
    timeframe_summary,  \* what summarize_timeframe_activities returned
    tf_error,           \* the exception the operation raised, "" when none
    context_analysed,   \* ids main analysed as context, in order
    context_failed,     \* ids main could not analyse ("Could not analyze")
    fpc,                \* "call", then which operation has run
    \* ---- StravaStoryGenerator.generate_activity_story ----
    story_row,          \* the row of activities_df the story is told of
    weather_first,      \* the weather phrase drawn by the first run
    story_first,        \* what the first run returned
    weather_second,     \* the weather phrase drawn by the second run
    story_second,       \* what the second run returned
    gpc,                \* "call", "once" after one run, "twice" after two
    \* ---- StravaStoryGenerator.generate_and_store_stories ----
    activities_df,      \* self.activities_df: the rows, in iterrows order
    rng_seed,           \* the state of np.random when the loop starts
    connected,          \* whether connect_to_chromadb will succeed
    idx,                \* rows the loop of line 424 has gone through
    stories,            \* the list stories
    metadatas,          \* the list metadatas
    ids,                \* the list ids
    story_errors,       \* ids of the rows reported by the except of line 454
    store_i,            \* i of the loop of line 467
    upsert_calls,       \* the calls collection.upsert has completed
    store_error,        \* whether the except of line 481 was entered
    bpc,                \* "connect", "loop", "store", "returned"
    \* ---- ActivityAnalyzer: calls repeated on one analyzer ----
    zone_tables,        \* the class attributes HR_ZONES and
                        \* ZONE_EFFORT_MULTIPLIERS
    constructed,        \* the analyzer's state when __init__ returned
    float_ties,         \* what the float arithmetic does at a rounding tie
    returned,           \* per method, the calls made: [args, result]
    repeated,           \* whether a call was made with arguments used before
    ncalls,             \* the number of calls made
    rpc                 \* "calls" while the analyzer is in use

zvars == <<heartrate_data, time_data, max_hr, zones_out, zpc>>
evars == <<zone_durations, relative_effort, prev_relative_effort, last_added,
           epc>>
envvars == <<birth_year, current_year>>
svars == <<story_max_hr, spc>>
lvars == <<row, effort_level, lpc>>
mvars == <<activity_in_index, analysis, error, mpc, activity_files,
           activity_detail, summary_string>>
tvars == <<terrain_row, terrain_type, tpc>>
vvars == <<distance_data, speed_time_data, story_speeds, story_speed_var,
           story_cell, vspc, enhanced_speeds, enhanced_speed_var,
           enhanced_cell, vepc>>
fvars == <<activity_index, target_date, timeframe, max_activities,
           filtered_activities, timeframe_summary, tf_error,
           context_analysed, context_failed, fpc>>
gvars == <<story_row, weather_first, story_first, weather_second,
           story_second, gpc>>
bvars == <<activities_df, rng_seed, connected, idx, stories, metadatas,
           ids, story_errors, store_i, upsert_calls, store_error, bpc>>
rvars == <<zone_tables, constructed, float_ties, returned, repeated,
           ncalls, rpc>>
vars == <<heartrate_data, time_data, max_hr, zones_out, zpc,
          zone_durations, relative_effort, prev_relative_effort,
          last_added, epc, birth_year, current_year, story_max_hr, spc,
          row, effort_level, lpc, activity_in_index, analysis, error, mpc,
          activity_files, activity_detail, summary_string,
          terrain_row, terrain_type, tpc, distance_data, speed_time_data,
          story_speeds, story_speed_var, story_cell, vspc, enhanced_speeds,
          enhanced_speed_var, enhanced_cell, vepc, activity_index,
          target_date, timeframe, max_activities, filtered_activities,
          timeframe_summary, tf_error, context_analysed, context_failed, fpc,
          story_row, weather_first, story_first, weather_second,
          story_second, gpc, activities_df, rng_seed, connected, idx,
          stories, metadatas, ids, story_errors, store_i, upsert_calls,
          store_error, bpc,
          zone_tables, constructed, float_ties, returned, repeated,
          ncalls, rpc>>

---------------------------------------------------------------------------
(* Bounds of the model. *)

\* Longest heart-rate or time stream.
MaxLen == 3

\* Most seconds a zone-duration map handed to the scorer holds in total.
MaxTotalSeconds == 9

\* The numeric values USER_BIRTHYEAR takes: MinBirthYear..MaxBirthYear.
MinBirthYear == 1800
MaxBirthYear == 2030

\* Most activities in activity_index.json.
MaxIndex == 3

\* Most rows of activities_df: three batches of stories.
MaxRows == 110

\* The calls made on one analyzer.
MaxCalls == 5

---------------------------------------------------------------------------
(* ActivityAnalyzer.HR_ZONES and ZONE_EFFORT_MULTIPLIERS *)

Zone1 == "Zone 1 (Active Recovery)"
Zone2 == "Zone 2 (Aerobic Base)"
Zone3 == "Zone 3 (Aerobic)"
Zone4 == "Zone 4 (Lactate Threshold)"
Zone5 == "Zone 5 (VO2 Max)"

\* The zones in the dictionary's (insertion) order, bounds in percent.
HR_ZONES ==
    << [name |-> Zone1, min_pct |-> 50, max_pct |-> 60],
       [name |-> Zone2, min_pct |-> 60, max_pct |-> 70],
       [name |-> Zone3, min_pct |-> 70, max_pct |-> 80],
       [name |-> Zone4, min_pct |-> 80, max_pct |-> 90],
       [name |-> Zone5, min_pct |-> 90, max_pct |-> 100] >>

ZoneNames == { HR_ZONES[k].name : k \in 1..Len(HR_ZONES) }

---------------------------------------------------------------------------
(* Inputs of calculate_hr_zones *)

\* Heart-rate samples: with max_hr = 190 these are 47.4%, 50%, 52.6%, 60%,
\* 78.9%, 90%, 100% and 105.3% of the maximum.
HRValues == {90, 95, 100, 114, 150, 171, 190, 200}

\* Timestamps of a time stream, in seconds.
TimeValues == {0, 60, 120}

\* self.max_hr is 220 - age with no range check, so 0 is a value it takes.
MaxHrValues == {0, 190}

SeqsUpTo(S, n) == UNION { [1..k -> S] : k \in 0..n }

\* A time stream counts elapsed seconds: it never decreases.
IsNonDecreasing(s) == \A i \in 1..(Len(s) - 1) : s[i] <= s[i + 1]

TimeStreams == { s \in SeqsUpTo(TimeValues, MaxLen) : IsNonDecreasing(s) }

HeartrateStreams == SeqsUpTo(HRValues, MaxLen)

---------------------------------------------------------------------------
(* ActivityAnalyzer.calculate_hr_zones *)

\* p <= hr / mx  for an integer percentage p (mx # 0).
PctAtLeast(hr, mx, p) ==
    IF mx > 0 THEN p * mx <= 100 * hr ELSE p * mx >= 100 * hr

\* hr / mx < p  for an integer percentage p (mx # 0).
PctBelow(hr, mx, p) ==
    IF mx > 0 THEN 100 * hr < p * mx ELSE 100 * hr > p * mx

\* The test of line 158 with the strictness of its two bounds exchanged:
\* min_pct < hr_percentage <= max_pct.
InZoneUpperInclusive(hr, mx, zone) ==
    /\ PctAtLeast(hr, mx, zone.min_pct)
    /\ 100 * hr # zone.min_pct * mx
    /\ (PctBelow(hr, mx, zone.max_pct) \/ 100 * hr = zone.max_pct * mx)

\* min_pct <= hr_percentage < max_pct
InZone(hr, mx, zone) ==
    PctAtLeast(hr, mx, zone.min_pct) /\ PctBelow(hr, mx, zone.max_pct)


\* zone_durations = {zone: 0 for zone in self.HR_ZONES.keys()}
ZeroDurations == [z \in ZoneNames |-> 0]

\* The empty dictionary {}.
EmptyMap == [z \in {} |-> 0]

\* The inner for-loop with its break: the first zone, in dictionary order,
\* whose interval holds the sample; 0 when no interval does.
FirstZone(hr, mx) ==
    LET hits == { k \in 1..Len(HR_ZONES) : InZone(hr, mx, HR_ZONES[k]) }
    IN  IF hits = {} THEN 0
        ELSE CHOOSE k \in hits : \A j \in hits : k <= j

\* The outer for-loop from (1-based) index i up to index last: the sample
\* at i gives its whole interval to its zone.
RECURSIVE ZoneLoop(_, _, _, _, _, _)
ZoneLoop(hr, tm, mx, i, last, zd) ==
    IF i > last THEN zd
    ELSE LET duration == IF i + 1 <= Len(tm) THEN tm[i + 1] - tm[i] ELSE 1
             k == FirstZone(hr[i], mx)
         IN  ZoneLoop(hr, tm, mx, i + 1, last,
                      IF k = 0 THEN zd
                      ELSE [zd EXCEPT ![HR_ZONES[k].name] = @ + duration])

\* calculate_hr_zones looping over range(len(heartrate_data)): the final
\* sample is classified too, with the duration 1 of line 152's else branch.
calculate_hr_zones_with_last_sample(hr, tm, mx) ==
    IF Len(hr) = 0 \/ Len(tm) = 0 THEN [kind |-> "empty", zones |-> EmptyMap]
    ELSE IF Len(hr) # Len(tm) THEN [kind |-> "ValueError", zones |-> EmptyMap]
    ELSE IF mx = 0 THEN [kind |-> "ZeroDivisionError", zones |-> EmptyMap]
    ELSE [kind |-> "map",
          zones |-> ZoneLoop(hr, tm, mx, 1, Len(hr), ZeroDurations)]

\* calculate_hr_zones without the length check of lines 145-146: the longer
\* stream is silently cut to the shorter one.
calculate_hr_zones_truncating(hr, tm, mx) ==
    LET n == IF Len(hr) <= Len(tm) THEN Len(hr) ELSE Len(tm)
    IN  IF n = 0 THEN [kind |-> "empty", zones |-> EmptyMap]
        ELSE IF mx = 0 /\ n >= 2
             THEN [kind |-> "ZeroDivisionError", zones |-> EmptyMap]
        ELSE [kind |-> "map",
              zones |-> ZoneLoop(hr, tm, mx, 1, n - 1, ZeroDurations)]

\* The call's outcome: kind "empty" is the early return {} for a falsy
\* (empty or absent) stream, "ValueError" the raise of line 146,
\* "ZeroDivisionError" the division of line 155 by a max_hr of 0,
\* "map" the returned zone_durations.
calculate_hr_zones(hr, tm, mx) ==
    IF Len(hr) = 0 \/ Len(tm) = 0 THEN [kind |-> "empty", zones |-> EmptyMap]
    ELSE IF Len(hr) # Len(tm) THEN [kind |-> "ValueError", zones |-> EmptyMap]
    ELSE IF mx = 0 /\ Len(hr) >= 2
         THEN [kind |-> "ZeroDivisionError", zones |-> EmptyMap]
    ELSE [kind |-> "map",
          zones |-> ZoneLoop(hr, tm, mx, 1, Len(hr) - 1, ZeroDurations)]

NoResult == [kind |-> "none", zones |-> EmptyMap]

---------------------------------------------------------------------------
(* ActivityAnalyzer.calculate_relative_effort *)

ZONE_EFFORT_MULTIPLIERS ==
    (Zone1 :> 1 @@ Zone2 :> 2 @@ Zone3 :> 3 @@ Zone4 :> 4 @@ Zone5 :> 5)

RECURSIVE SumFn(_, _)
SumFn(f, S) ==
    IF S = {} THEN 0
    ELSE LET x == CHOOSE y \in S : TRUE IN f[x] + SumFn(f, S \ {x})

\* The loop of lines 168-172 in units of 1/60 point: the sum of
\* duration * multiplier over the zones that have a multiplier
\* (total_effort is this sum divided by 60).
WeightedSeconds(zd) ==
    LET known == DOMAIN zd \cap DOMAIN ZONE_EFFORT_MULTIPLIERS
    IN  SumFn([z \in known |-> zd[z] * ZONE_EFFORT_MULTIPLIERS[z]], known)

\* round(total_effort) : the score rounded to whole points.
RoundToWholePoints(s, tie) == 10 * ((s + 30) \div 60)

\* round(total_effort, 1) for total_effort = s/60, s >= 0, in tenths.  Off a
\* tie the nearest tenth.  At a tie of the exact value (s/6 ends in .5) the
\* double that the float sum produced lies a rounding error to one side of
\* it, or on it, and Python rounds that double correctly (half to even when
\* on it): the outcome is the lower tenth (tie = 0) or the upper (tie = 1),
\* as the float arithmetic of the particular map decides.
RoundTenths(s, tie) ==
    IF s % 6 = 3 THEN (s \div 6) + tie ELSE (s + 3) \div 6

\* The scorer dividing the total by the number of zones that hold time.
calculate_relative_effort_per_active_zone(zd, tie) ==
    LET active == { z \in DOMAIN zd : zd[z] > 0 }
    IN  IF active = {} THEN 0
        ELSE RoundTenths(WeightedSeconds(zd) \div Cardinality(active), tie)

\* The scorer without the multipliers.
calculate_relative_effort_unweighted(zd, tie) ==
    RoundTenths(SumFn(zd, DOMAIN zd), tie)

calculate_relative_effort(zd, tie) == RoundTenths(WeightedSeconds(zd), tie)

TotalSeconds(zd) == SumFn(zd, DOMAIN zd)

NoneAdded == [zone |-> "", seconds |-> 0]

---------------------------------------------------------------------------
(* The environment: USER_BIRTHYEAR and the clock *)

\* USER_BIRTHYEAR: not set, set to the empty string, set to text int()
\* rejects, or set to a year.
Unset == [kind |-> "unset", year |-> 0]
EmptyText == [kind |-> "empty", year |-> 0]
NonNumeric == [kind |-> "nonnumeric", year |-> 0]
Year(y) == [kind |-> "int", year |-> y]

BirthYearEnv ==
    {Unset, EmptyText, NonNumeric}
        \cup { Year(y) : y \in MinBirthYear..MaxBirthYear }

CurrentYears == {2025, 2026}

\* "if not birth_year": None and "" are falsy.
Falsy(by) == by.kind \in {"unset", "empty"}

IntResult(n) == [kind |-> "int", value |-> n]
NoneResult == [kind |-> "None", value |-> 0]
Raised(e) == [kind |-> e, value |-> 0]

---------------------------------------------------------------------------
(* StravaStoryGenerator._calculate_max_hr *)

\* The estimator without the sanity checks of lines 299-306.
story_calculate_max_hr_unchecked(by, cy) ==
    IF Falsy(by) THEN NoneResult
    ELSE IF by.kind = "nonnumeric" THEN NoneResult
    ELSE IntResult(220 - (cy - by.year))

\* None when the variable is not set, when int() raises ValueError (caught
\* at line 310), or when a sanity check fails; else 220 - age.
story_calculate_max_hr(by, cy) ==
    IF Falsy(by) THEN NoneResult
    ELSE IF by.kind = "nonnumeric" THEN NoneResult
    ELSE LET age == cy - by.year
             mx == 220 - age
         IN  IF age < 10 \/ age > 100 THEN NoneResult
             ELSE IF mx < 120 \/ mx > 220 THEN NoneResult
             ELSE IntResult(mx)

---------------------------------------------------------------------------
(* ActivityAnalyzer._calculate_max_hr (activity_builder_v2) *)

\* Raises ValueError when the variable is not set or int() rejects it; else
\* returns 220 - age, whatever the age.
analyzer_calculate_max_hr(by, cy) ==
    IF Falsy(by) THEN Raised("ValueError")
    ELSE IF by.kind = "nonnumeric" THEN Raised("ValueError")
    ELSE IntResult(220 - (cy - by.year))

---------------------------------------------------------------------------
(* StravaStoryGenerator._determine_effort_level *)

\* A numeric cell of a row: NaN, or a number.
NaN == [isna |-> TRUE, value |-> 0]
Num(n) == [isna |-> FALSE, value |-> n]

\* row.get(key, default)
RowGet(r, key, default) == IF key \in DOMAIN r THEN r[key] ELSE default

\* The speed estimate with the Run thresholds applied to every activity type.
SpeedLevelRunThresholdsForAll(activity_type, speed) ==
    IF speed < 8 THEN "easy"
    ELSE IF speed < 12 THEN "moderate"
    ELSE IF speed < 16 THEN "hard"
    ELSE "very_hard"

\* Lines 246-257: the estimate from the average speed.
SpeedLevel(activity_type, speed) ==
    IF activity_type = "Ride"
    THEN IF speed < 15 THEN "easy"
         ELSE IF speed < 25 THEN "moderate"
         ELSE IF speed < 35 THEN "hard"
         ELSE "very_hard"
    ELSE IF activity_type = "Run"
    THEN IF speed < 8 THEN "easy"
         ELSE IF speed < 12 THEN "moderate"
         ELSE IF speed < 16 THEN "hard"
         ELSE "very_hard"
    ELSE "moderate"

\* Lines 263-266: the generic zones, in bpm.
GenericHrLevel(hr_avg) ==
    IF hr_avg < 130 THEN "easy"
    ELSE IF hr_avg < 150 THEN "moderate"
    ELSE IF hr_avg < 170 THEN "hard"
    ELSE "very_hard"

\* The percentage estimate with the 90% boundary counted as hard.
HrPercentageLevelHardAtNinety(hr_avg, mx) ==
    IF 100 * hr_avg < 70 * mx THEN "easy"
    ELSE IF 100 * hr_avg < 80 * mx THEN "moderate"
    ELSE IF 100 * hr_avg <= 90 * mx THEN "hard"
    ELSE "very_hard"

\* Lines 269-282: hr_percentage = (hr_avg / max_hr) * 100 against 60, 70,
\* 80 and 90 (max_hr is positive here).
HrPercentageLevel(hr_avg, mx) ==
    IF 100 * hr_avg < 60 * mx THEN "easy"
    ELSE IF 100 * hr_avg < 70 * mx THEN "easy"
    ELSE IF 100 * hr_avg < 80 * mx THEN "moderate"
    ELSE IF 100 * hr_avg < 90 * mx THEN "hard"
    ELSE "very_hard"

\* The classifier estimating from speed whenever max_hr is not available.
determine_effort_level_without_generic(r, by, cy) ==
    LET hr_avg == RowGet(r, "hr_stream_avg",
                         RowGet(r, "average_heartrate", Num(0)))
        speed == RowGet(r, "average_speed_kmh", Num(0)).value
        activity_type == RowGet(r, "type", "Unknown")
        mx == story_calculate_max_hr(by, cy)
    IN  IF hr_avg.isna \/ hr_avg.value = 0 \/ mx.kind = "None"
        THEN SpeedLevel(activity_type, speed)
        ELSE HrPercentageLevel(hr_avg.value, mx.value)

determine_effort_level(r, by, cy) ==
    LET hr_avg == RowGet(r, "hr_stream_avg",
                         RowGet(r, "average_heartrate", Num(0)))
        speed == RowGet(r, "average_speed_kmh", Num(0)).value
        activity_type == RowGet(r, "type", "Unknown")
    IN  IF hr_avg.isna \/ hr_avg.value = 0
        THEN SpeedLevel(activity_type, speed)
        ELSE LET mx == story_calculate_max_hr(by, cy)
             IN  IF mx.kind = "None" THEN GenericHrLevel(hr_avg.value)
                 ELSE HrPercentageLevel(hr_avg.value, mx.value)

\* Rows as _add_story_elements hands them over: _add_stream_analytics has
\* created the column hr_stream_avg (NaN without a usable heart-rate
\* stream), and _preprocess_data the column average_speed_kmh.
ActivityTypes == {"Ride", "Run", "Walk"}
SpeedValues == {7, 8, 12, 15, 16, 25, 34, 35}
HrAvgValues == {100, 114, 129, 130, 133, 149, 150, 152, 169, 170, 171, 190}

\* The scalar average_heartrate of the activity JSON, where it has one.
ScalarHrValues == {150, 175}

StreamRows ==
    { ("type" :> t @@ "average_speed_kmh" :> Num(v) @@ "hr_stream_avg" :> h) :
          t \in ActivityTypes, v \in SpeedValues,
          h \in {NaN} \cup { Num(n) : n \in HrAvgValues } }

Rows ==
    StreamRows
    \cup { r @@ ("average_heartrate" :> Num(n)) :
               r \in StreamRows, n \in ScalarHrValues }

\* USER_BIRTHYEAR as the classifier's runs see it: ages 30 (max_hr 190) and
\* 29 or 31, an age under 10, an age over 100, and no usable value.
LevelBirthYearEnv ==
    {Unset, NonNumeric, Year(1900), Year(1995), Year(1996), Year(2020)}

---------------------------------------------------------------------------
(* StravaStoryGenerator._determine_terrain_type *)

\* A distance_km cell is held in thousandths of a kilometre, which is the
\* distance in metres it was computed from (line 154); the elevation gain
\* is in metres.  elevation_gain / distance_km < p is then
\* 1000 * gain < p * thousandths; for the distances of KmValues (1.0, 2.5
\* and 10.0 km are exact doubles) the double quotient compares with 5, 15
\* and 30 as the rational does.
KmDefault == Num(1000)

\* Line 320 and one test of lines 322-324: elevation_per_km < p, where
\* elevation_per_km is 0 unless distance_km > 0 (a NaN distance is not
\* > 0; a NaN gain makes every comparison false).
ElevationPerKmBelow(gain, km, p) ==
    IF km.isna \/ km.value <= 0 THEN 0 < p
    ELSE ~ gain.isna /\ 1000 * gain.value < p * km.value

\* The classifier dividing by distance_km whatever its value.
determine_terrain_type_unguarded(r) ==
    LET gain == RowGet(r, "total_elevation_gain", Num(0))
        km == RowGet(r, "distance_km", KmDefault)
    IN  IF ~ km.isna /\ km.value = 0 THEN "ZeroDivisionError"
        ELSE IF ~ gain.isna /\ ~ km.isna /\ 1000 * gain.value < 5 * km.value
        THEN "flat"
        ELSE IF ~ gain.isna /\ ~ km.isna /\ 1000 * gain.value < 15 * km.value
        THEN "rolling"
        ELSE IF ~ gain.isna /\ ~ km.isna /\ 1000 * gain.value < 30 * km.value
        THEN "hilly"
        ELSE "mountainous"

determine_terrain_type(r) ==
    LET gain == RowGet(r, "total_elevation_gain", Num(0))
        km == RowGet(r, "distance_km", KmDefault)
    IN  IF ElevationPerKmBelow(gain, km, 5) THEN "flat"
        ELSE IF ElevationPerKmBelow(gain, km, 15) THEN "rolling"
        ELSE IF ElevationPerKmBelow(gain, km, 30) THEN "hilly"
        ELSE "mountainous"

\* Rows of activities_df: distance_km is always a column (NaN where the
\* activity has no distance), total_elevation_gain may be missing.
GainValues == {0, 12, 13, 37, 38, 49, 50, 74, 75, 149, 150, 299, 300, 400}
KmValues == {0, 1000, 2500, 10000}

TerrainRows ==
    { ("distance_km" :> d) : d \in {NaN} \cup { Num(k) : k \in KmValues } }
    \cup
    { ("distance_km" :> d @@ "total_elevation_gain" :> g) :
          d \in {NaN} \cup { Num(k) : k \in KmValues },
          g \in {NaN} \cup { Num(e) : e \in GainValues } }

---------------------------------------------------------------------------
(* _calculate_speed_variability of StravaStoryGenerator and of            *)
(* EnhancedStravaAnalyzer, and the cell speed_variability they fill.       *)
(*                                                                         *)
(* A returned coefficient np.std(speeds) / np.mean(speeds) is not negative *)
(* (the mean is positive when it is returned) and is held as its square,   *)
(* a fraction num / den in lowest terms: with n speeds x of sum S,         *)
(*   (std / mean)^2  =  SUM (n*x - S)^2  /  (n * S^2).                     *)

RECURSIVE GCD(_, _)
GCD(a, b) == IF b = 0 THEN a ELSE GCD(b, a % b)

Fraction(num, den) ==
    LET g == GCD(num, den) IN [num |-> num \div g, den |-> den \div g]

NoneVar == [kind |-> "None", num |-> 0, den |-> 1]
NaNVar == [kind |-> "nan", num |-> 0, den |-> 1]
ZeroVar == [kind |-> "value", num |-> 0, den |-> 1]
ValueVar(f) == [kind |-> "value", num |-> f.num, den |-> f.den]

\* (dist_diff / time_diff) * 3.6, in km/h.  For the streams of
\* DistanceValues and SpeedTimeValues the double is this whole number.
Speed(dist_diff, time_diff) == (36 * dist_diff) \div (10 * time_diff)

\* The loop taking every pair whose time delta is not zero.
RECURSIVE SpeedsOfNonzeroDeltas(_, _, _)
SpeedsOfNonzeroDeltas(d, t, i) ==
    IF i > Len(d) THEN << >>
    ELSE LET dist_diff == d[i] - d[i - 1]
             time_diff == t[i] - t[i - 1]
         IN  ( IF time_diff # 0 THEN << Speed(dist_diff, time_diff) >>
               ELSE << >> ) \o SpeedsOfNonzeroDeltas(d, t, i + 1)

\* The loop of lines 207-213 from index i on (i counts from 2 here).
RECURSIVE SpeedsFrom(_, _, _)
SpeedsFrom(d, t, i) ==
    IF i > Len(d) THEN << >>
    ELSE LET dist_diff == d[i] - d[i - 1]
             time_diff == t[i] - t[i - 1]
         IN  ( IF time_diff > 0 THEN << Speed(dist_diff, time_diff) >>
               ELSE << >> ) \o SpeedsFrom(d, t, i + 1)

SumSeq(sp) == SumFn(sp, DOMAIN sp)

\* The coefficient with the sample standard deviation (n - 1 below).
CoefficientSampleStd(sp) ==
    LET n == Len(sp)
        S == SumSeq(sp)
        dev == [k \in DOMAIN sp |-> (n * sp[k] - S) * (n * sp[k] - S)]
    IN  IF n = 1 THEN ZeroVar
        ELSE ValueVar(Fraction(SumSeq(dev), (n - 1) * S * S))

\* np.std(speeds) / np.mean(speeds) for a non-empty list of positive mean.
Coefficient(sp) ==
    LET n == Len(sp)
        S == SumSeq(sp)
        dev == [k \in DOMAIN sp |-> (n * sp[k] - S) * (n * sp[k] - S)]
    IN  ValueVar(Fraction(SumSeq(dev), n * S * S))

\* story_generator.py, lines 202-215.
story_calculate_speed_variability(d, t) ==
    IF Len(d) # Len(t) \/ Len(d) < 2
    THEN [speeds |-> << >>, result |-> NoneVar]
    ELSE LET sp == SpeedsFrom(d, t, 2)
         IN  [speeds |-> sp,
              result |-> IF sp # << >> /\ SumSeq(sp) > 0
                         THEN Coefficient(sp) ELSE NoneVar]

\* enhanced_analyzer.py, lines 197-212.
enhanced_calculate_speed_variability(d, t) ==
    IF Len(d) # Len(t) \/ Len(d) < 2
    THEN [speeds |-> << >>, result |-> NoneVar]
    ELSE LET sp == SpeedsFrom(d, t, 2)
         IN  [speeds |-> sp,
              result |-> IF sp # << >>
                         THEN ( IF SumSeq(sp) > 0 THEN Coefficient(sp)
                                ELSE ZeroVar )
                         ELSE NoneVar]

\* df.at[idx, 'speed_variability'] = speed_var on the float column: None
\* is stored as NaN.
CellOf(speed_var) == IF speed_var.kind = "None" THEN NaNVar ELSE speed_var

\* enhanced_analyzer.py, line 118: fillna(0) on the numeric columns.
FillNa(cell) == IF cell.kind = "nan" THEN ZeroVar ELSE cell

\* Streams as they are read from the stream files: any numbers, and the
\* two streams need not have the same length.
DistanceValues == {0, 100, 300}
SpeedTimeValues == {0, 10, 20}
DistanceStreams == SeqsUpTo(DistanceValues, MaxLen)
SpeedTimeStreams == SeqsUpTo(SpeedTimeValues, MaxLen)

---------------------------------------------------------------------------
(* ActivityAnalyzer.get_activities_by_timeframe and                        *)
(* summarize_timeframe_activities.                                         *)
(*                                                                         *)
(* A start_date is held as its calendar date [year, month, day] (the       *)
(* timestamps are UTC, 'Z' is replaced by '+00:00' before parsing); a      *)
(* distance is in metres, so a number of kilometres distance / 1000 is     *)
(* held in thousandths; total_distance_km is held in tenths.               *)

Date(y, m, d) == [year |-> y, month |-> m, day |-> d]

IsLeapYear(y) == (y % 4 = 0) /\ ((y % 100 # 0) \/ (y % 400 = 0))

DaysBeforeMonth(y, m) ==
    <<0, 31, 59, 90, 120, 151, 181, 212, 243, 273, 304, 334>>[m]
        + (IF m > 2 /\ IsLeapYear(y) THEN 1 ELSE 0)

\* date.toordinal(): 1 for 0001-01-01, a Monday.
Ordinal(dt) ==
    LET y == dt.year - 1
    IN  y * 365 + (y \div 4) - (y \div 100) + (y \div 400)
          + DaysBeforeMonth(dt.year, dt.month) + dt.day

\* A weekday counted from Sunday = 0.
WeekdayFromSunday(dt) == Ordinal(dt) % 7

\* datetime.weekday(): Monday = 0 .. Sunday = 6.
Weekday(dt) == (Ordinal(dt) + 6) % 7

\* (dt - timedelta(days=dt.weekday())).date(), as an ordinal.
WeekStart(dt) == Ordinal(dt) - Weekday(dt)

\* The order of the strings x['start_date'] ('YYYY-MM-DD...').
StartDateKey(a) ==
    a["start_date"].year * 10000 + a["start_date"].month * 100
        + a["start_date"].day

\* list.sort(key=..., reverse=True): descending, and stable.
RECURSIVE InsertDescending(_, _)
InsertDescending(a, s) ==
    IF s = << >> THEN << a >>
    ELSE IF StartDateKey(Head(s)) >= StartDateKey(a)
         THEN << Head(s) >> \o InsertDescending(a, Tail(s))
         ELSE << a >> \o s

RECURSIVE SortDescending(_)
SortDescending(s) ==
    IF s = << >> THEN << >>
    ELSE InsertDescending(s[Len(s)], SortDescending(SubSeq(s, 1, Len(s) - 1)))

NoCap == [given |-> FALSE, n |-> 0]
Cap(n) == [given |-> TRUE, n |-> n]

\* Lines 269-287: whether an activity of the index is appended.
InTimeframe(a, target, tf) ==
    LET activity_dt == a["start_date"]
    IN  CASE tf = "week" -> WeekStart(target) = WeekStart(activity_dt)
          [] tf = "month" -> /\ target.year = activity_dt.year
                             /\ target.month = activity_dt.month
          [] tf = "year" -> target.year = activity_dt.year
          [] OTHER -> FALSE

\* The cap of lines 293-294 keeping the last N of the sorted list, the
\* least recent ones.
get_activities_by_timeframe_keeping_oldest(index, target, tf, cap) ==
    LET Matches(a) == InTimeframe(a, target, tf)
        sorted == SortDescending(SelectSeq(index, Matches))
    IN  IF tf = "year" /\ cap.given /\ cap.n # 0 /\ Len(sorted) > cap.n
        THEN SubSeq(sorted, Len(sorted) - cap.n + 1, Len(sorted))
        ELSE sorted

\* Lines 257-296.  `max_activities and ...` is false for None and for 0.
get_activities_by_timeframe(index, target, tf, cap) ==
    LET Matches(a) == InTimeframe(a, target, tf)
        sorted == SortDescending(SelectSeq(index, Matches))
    IN  IF tf = "year" /\ cap.given /\ cap.n # 0 /\ Len(sorted) > cap.n
        THEN SubSeq(sorted, 1, cap.n)
        ELSE sorted

\* format_duration, lines 176-181: the text HH:MM:SS, held by its fields.
format_duration(seconds) ==
    [hours |-> seconds \div 3600,
     minutes |-> (seconds % 3600) \div 60,
     seconds |-> seconds % 60]

\* round(total_distance, 1) of total metres / 1000, in tenths of a km.  At
\* an exact tie the double decides (20.05 is held a little above, 0.15 a
\* little below): either neighbour.
round_km(metres, tie) ==
    IF metres % 100 = 50 THEN (metres \div 100) + tie
    ELSE (metres + 50) \div 100

\* activity.get('type', 'Unknown') and the like.
TypeOf(a) == RowGet(a, "type", "Unknown")
DistanceOf(a) == RowGet(a, "distance", 0)
MovingTimeOf(a) == RowGet(a, "moving_time", 0)

\* The breakdown keeping one activity per type.
activity_types_one_per_type(activities) ==
    LET types == { TypeOf(activities[k]) : k \in DOMAIN activities }
        first(t) == CHOOSE k \in DOMAIN activities :
                        /\ TypeOf(activities[k]) = t
                        /\ \A j \in DOMAIN activities :
                               TypeOf(activities[j]) = t => k <= j
    IN  [t \in types |->
            [count |-> 1,
             distance |-> DistanceOf(activities[first(t)]),
             time |-> MovingTimeOf(activities[first(t)])]]

\* Lines 310-320: count, distance and time by activity type.
activity_types_of(activities) ==
    LET types == { TypeOf(activities[k]) : k \in DOMAIN activities }
        of(t) == { k \in DOMAIN activities : TypeOf(activities[k]) = t }
    IN  [t \in types |->
            [count |-> Cardinality(of(t)),
             distance |-> SumFn([k \in of(t) |-> DistanceOf(activities[k])],
                                of(t)),
             time |-> SumFn([k \in of(t) |-> MovingTimeOf(activities[k])],
                            of(t))]]

\* Line 303: the dict holding only the key 'summary'.
NoActivitiesSummary ==
    [kind |-> "no activities",
     total_activities |-> 0,
     total_distance_km |-> 0,
     total_moving_time |-> format_duration(0),
     activity_types |-> EmptyMap,
     activities_list |-> << >>]

\* Lines 298-342.
summarize_timeframe_activities(index, target, tf, cap, tie) ==
    LET activities == get_activities_by_timeframe(index, target, tf, cap)
        all == DOMAIN activities
    IN  IF activities = << >> THEN NoActivitiesSummary
        ELSE [kind |-> "summary",
              total_activities |-> Len(activities),
              total_distance_km |->
                  round_km(SumFn([k \in all |-> DistanceOf(activities[k])],
                                 all), tie),
              total_moving_time |->
                  format_duration(
                      SumFn([k \in all |-> MovingTimeOf(activities[k])],
                            all)),
              activity_types |-> activity_types_of(activities),
              activities_list |-> activities]

\* 'summary_string' in summary: only the full summary has that key.
HasSummaryString(summary) == summary.kind = "summary"

\* The activities an index is made of.  The fifth has no 'type'.
Activities ==
    << [id |-> 1, start_date |-> Date(2024, 3, 10), type |-> "Ride",
        distance |-> 20050, moving_time |-> 3600],
       [id |-> 2, start_date |-> Date(2024, 3, 11), type |-> "Run",
        distance |-> 5020, moving_time |-> 1805],
       [id |-> 3, start_date |-> Date(2024, 3, 14), type |-> "Ride",
        distance |-> 30500, moving_time |-> 5400],
       [id |-> 4, start_date |-> Date(2024, 3, 17), type |-> "Run",
        distance |-> 10000, moving_time |-> 3000],
       [id |-> 5, start_date |-> Date(2024, 3, 18),
        distance |-> 1234, moving_time |-> 900],
       [id |-> 6, start_date |-> Date(2023, 3, 14), type |-> "Ride",
        distance |-> 40000, moving_time |-> 7200],
       [id |-> 7, start_date |-> Date(2024, 12, 30), type |-> "Ride",
        distance |-> 15000, moving_time |-> 2400],
       [id |-> 8, start_date |-> Date(2025, 1, 1), type |-> "Run",
        distance |-> 8000, moving_time |-> 2700] >>

IsInjective(s) == \A i, j \in DOMAIN s : s[i] = s[j] => i = j

\* activity_index.json: up to MaxIndex different activities, in any order.
ActivityIndexes ==
    { [k \in DOMAIN picks |-> Activities[picks[k]]] :
          picks \in { s \in SeqsUpTo(DOMAIN Activities, MaxIndex) :
                        IsInjective(s) } }

AnchorDates == {Date(2024, 3, 14), Date(2025, 1, 1)}

\* A start_date that datetime.fromisoformat rejects, such as "not-a-date".
NotADate == [year |-> 0, month |-> 0, day |-> 0]

\* Line 267 parses the start_date of every entry of the index.
IndexParses(index) ==
    \A k \in DOMAIN index : index[k]["start_date"] # NotADate

\* Entries of the week of 2024-03-14 whose analysis fails, and one whose
\* start_date is malformed.
BrokenActivities ==
    << [id |-> 9, start_date |-> NotADate, type |-> "Ride",
        distance |-> 1000, moving_time |-> 600],
       [id |-> 10, start_date |-> Date(2024, 3, 12), type |-> "Run",
        distance |-> 7000, moving_time |-> 2100],
       [id |-> 11, start_date |-> Date(2024, 3, 13), type |-> "Ride",
        distance |-> 25000, moving_time |-> 4000] >>

---------------------------------------------------------------------------
(* StravaStoryGenerator.generate_activity_story                            *)

\* Lines 49-52.
weather_descriptors ==
    << "sunny morning", "crisp afternoon", "pleasant evening",
       "foggy morning", "windy day", "cool morning", "warm afternoon",
       "clear day" >>

\* Lines 54-59.
effort_descriptors ==
    [easy |-> << "relaxed", "comfortable", "easy-going", "leisurely" >>,
     moderate |-> << "steady", "consistent", "good rhythm", "solid effort" >>,
     hard |-> << "challenging", "tough", "demanding", "intense" >>,
     very_hard |-> << "grueling", "exhausting", "maximum effort",
                      "all-out" >>]

\* Lines 61-66.
climb_descriptors ==
    [flat |-> << "mostly flat terrain", "gentle rolling hills",
                 "flat route" >>,
     rolling |-> << "rolling hills", "undulating terrain", "some climbs" >>,
     hilly |-> << "hilly terrain", "significant climbing",
                  "challenging climbs" >>,
     mountainous |-> << "mountainous terrain", "steep climbs",
                        "major elevation gain" >>]

\* A 'type' cell that is NaN: the activity's JSON has no 'type'.
MissingType == "<NaN>"

\* A start_date_local cell that is NaT: the JSON has no 'start_date_local'.
NaT == [year |-> 0, month |-> 0, day |-> 0]

\* f"{x:.1f}" and f"{x:.0f}" of a quantity n / d: the nearest value with
\* that many digits, the even one at a tie (a tie the double holds exactly,
\* such as 50.5; the rows of the model hold no other tie).
FormatFixed(n, d) ==
    LET q == n \div d
        r == n % d
    IN  IF 2 * r > d \/ (2 * r = d /\ q % 2 = 1) THEN q + 1 ELSE q

\* activity_type.lower() of the types the rows carry.
Lower(activity_type) ==
    CASE activity_type = "Walk" -> "walk"
      [] activity_type = "Hike" -> "hike"
      [] OTHER -> activity_type

\* One clause of a sentence: which clause it is, its words and its number.
Clause(c, text, detail, number) ==
    [clause |-> c, text |-> text, detail |-> detail, number |-> number]

\* Line 367 with >= in place of >.
ElevationClauseFromFifty(elevation_gain) ==
    IF ~ elevation_gain.isna /\ elevation_gain.value >= 500
    THEN << Clause("climbing", "m of climbing", "",
                   FormatFixed(elevation_gain.value, 10)) >>
    ELSE << >>

\* Lines 367-368: elevation_gain in tenths of a metre; NaN > 50 is false.
ElevationClause(elevation_gain) ==
    IF ~ elevation_gain.isna /\ elevation_gain.value > 500
    THEN << Clause("climbing", "m of climbing", "",
                   FormatFixed(elevation_gain.value, 10)) >>
    ELSE << >>

\* Lines 374-375: avg_hr in tenths of a beat per minute.
HeartRateClause(avg_hr) ==
    IF ~ avg_hr.isna /\ avg_hr.value > 0
    THEN << Clause("heart rate", "bpm", "", FormatFixed(avg_hr.value, 10)) >>
    ELSE << >>

\* Lines 344-375, story_parts: distance_km in thousandths of a km,
\* average_speed_kmh in hundredths of a km/h.
story_parts(r) ==
    LET activity_type == r["type"]
        avg_hr == RowGet(r, "hr_stream_avg",
                         RowGet(r, "average_heartrate", NaN))
        opening ==
            Clause("distance",
                   CASE activity_type = "Ride" -> "cycling ride"
                     [] activity_type = "Run" -> "run"
                     [] OTHER -> Lower(activity_type),
                   "km", FormatFixed(r["distance_km"], 100))
    IN  << opening >>
        \o ElevationClause(RowGet(r, "total_elevation_gain", Num(0)))
        \o << Clause("speed", "km/h", "",
                     FormatFixed(r["average_speed_kmh"], 10)) >>
        \o HeartRateClause(avg_hr)

\* Lines 398-402, the sentences on the richness of the streams.
RichnessParts(r) ==
    (IF r["hr_data_points"] > 1000
     THEN << Clause("Heart rate data shows consistent effort", "", "", 0) >>
     ELSE << >>)
    \o (IF r["position_data_points"] > 500
        THEN << Clause("GPS tracking captured detailed route information",
                       "", "", 0) >>
        ELSE << >>)

\* context_parts taking the effort descriptor at the position of the drawn
\* weather phrase instead of the first one.
context_parts_drawing_effort(r, weather) ==
    LET k == CHOOSE i \in 1..Len(weather_descriptors) :
                 weather_descriptors[i] = weather
        effort_desc == effort_descriptors[r["effort_level"]][((k - 1) % 4) + 1]
    IN  << Clause("weather", weather, r["season"], 0),
           IF r["terrain_type"] \in {"hilly", "mountainous"}
           THEN Clause("on the climbs", effort_desc, "", 0)
           ELSE Clause("pace throughout", effort_desc, "", 0) >>
        \o RichnessParts(r)

\* Lines 379-402, context_parts, given the phrase np.random.choice drew:
\* "Took place on a <weather> in <season>", then "Felt <effort> on the
\* climbs" or "Maintained a <effort> pace throughout".
context_parts(r, weather) ==
    LET effort_desc == effort_descriptors[r["effort_level"]][1]
    IN  << Clause("weather", weather, r["season"], 0),
           IF r["terrain_type"] \in {"hilly", "mountainous"}
           THEN Clause("on the climbs", effort_desc, "", 0)
           ELSE Clause("pace throughout", effort_desc, "", 0) >>
        \o RichnessParts(r)

NoStory == [kind |-> "none", main_sentence |-> << >>, context_parts |-> << >>]

\* Lines 341-407.  The story is main_sentence, a blank and the context
\* parts joined by ". "; it is held by its clauses.  A NaN type has no
\* method lower (line 364), and a terrain or effort level outside the
\* tables is a KeyError (lines 378-379).
generate_activity_story(r, weather) ==
    IF r["type"] = MissingType
    THEN [kind |-> "AttributeError", main_sentence |-> << >>,
          context_parts |-> << >>]
    ELSE IF \/ r["terrain_type"] \notin DOMAIN climb_descriptors
            \/ r["effort_level"] \notin DOMAIN effort_descriptors
    THEN [kind |-> "KeyError", main_sentence |-> << >>,
          context_parts |-> << >>]
    ELSE [kind |-> "story", main_sentence |-> story_parts(r),
          context_parts |-> context_parts(r, weather)]

Weathers == { weather_descriptors[k] : k \in DOMAIN weather_descriptors }

\* Rows of activities_df after _preprocess_data: 12.34 km at 24.68 km/h,
\* gains of 50.0, 50.5 and 120.4 m or none, a stream average of 133.5 bpm or
\* none (NaN), sample counts around the two thresholds.
StoryRows ==
    [type : {"Ride", "Run", "Walk"},
     distance_km : {12340},
     average_speed_kmh : {2468},
     total_elevation_gain : {NaN, Num(500), Num(505), Num(1204)},
     hr_stream_avg : {NaN, Num(1335)},
     effort_level : {"easy", "very_hard"},
     terrain_type : {"flat", "rolling", "hilly", "mountainous"},
     season : {"spring"},
     time_of_day : {"morning"},
     hr_data_points : {0, 1000, 1001},
     position_data_points : {500, 501},
     id : {1},
     start_date_local : {Date(2024, 3, 14)}]

---------------------------------------------------------------------------
(* StravaStoryGenerator.generate_and_store_stories                         *)

\* Line 466.
batch_size == 50

\* The phrase np.random.choice returns at its k-th call: np.random is a
\* pseudo-random generator, so the phrases of a run are a sequence fixed
\* by its state when the run starts.
DrawnWeather(seed, k) ==
    weather_descriptors[((seed + 3 * k) % Len(weather_descriptors)) + 1]

\* Lines 430-445.  NaT has no strftime (ValueError); str(row['id']) is
\* the decimal text, the date '%Y-%m-%d' is held by its fields.
prepare_metadata(r) ==
    IF r["start_date_local"] = NaT
    THEN [kind |-> "ValueError"]
    ELSE [kind |-> "metadata",
          activity_id |-> ToString(r["id"]),
          activity_name |-> RowGet(r, "name", ""),
          activity_type |-> r["type"],
          date |-> r["start_date_local"],
          distance_km |-> r["distance_km"],
          avg_speed_kmh |-> r["average_speed_kmh"],
          elevation_gain_m |-> RowGet(r, "total_elevation_gain", Num(0)),
          avg_hr_bpm |-> RowGet(r, "hr_stream_avg",
                                RowGet(r, "average_heartrate", Num(0))),
          effort_level |-> r["effort_level"],
          terrain_type |-> r["terrain_type"],
          time_of_day |-> r["time_of_day"],
          season |-> r["season"],
          has_hr_data |-> r["hr_data_points"] > 0,
          has_gps_data |-> r["position_data_points"] > 0]

\* list[i:i + batch_size] leaving out a last batch that is not full.
batch_slice_full_only(list, i) ==
    IF i + batch_size <= Len(list)
    THEN SubSeq(list, i + 1, i + batch_size)
    ELSE << >>

\* list[i:i + batch_size], lines 468-470 (i counts from 0).
batch_slice(list, i) ==
    SubSeq(list, i + 1,
           IF i + batch_size <= Len(list) THEN i + batch_size
           ELSE Len(list))

\* The row of the activity with identifier k: type_every and date_every
\* say which activities have no 'type' and no 'start_date_local' in their
\* JSON (none for 0); the distance is k km and 340 m.
StoryRowOf(k, type_every, date_every) ==
    [type |-> IF type_every > 0 /\ k % type_every = 0 THEN MissingType
              ELSE IF k % 2 = 0 THEN "Ride" ELSE "Run",
     distance_km |-> 1000 * k + 340,
     average_speed_kmh |-> 2468,
     total_elevation_gain |-> IF k % 3 = 0 THEN Num(1204) ELSE NaN,
     hr_stream_avg |-> IF k % 2 = 0 THEN Num(1335) ELSE NaN,
     effort_level |-> "easy",
     terrain_type |-> IF k % 3 = 0 THEN "hilly" ELSE "flat",
     season |-> "spring",
     time_of_day |-> "morning",
     hr_data_points |-> IF k % 2 = 0 THEN 1001 ELSE 0,
     position_data_points |-> 501,
     id |-> k,
     start_date_local |-> IF date_every > 0 /\ k % date_every = 0 THEN NaT
                          ELSE Date(2024, 3, (k % 28) + 1)]

\* Which rows lack a type or a date: none, a few, many.
MissingPatterns ==
    { [type_every |-> 0, date_every |-> 0],
      [type_every |-> 20, date_every |-> 45],
      [type_every |-> 3, date_every |-> 4] }

\* activities_df: the activities 1..n, n up to MaxRows.
ActivityFrames ==
    { [k \in 1..n |-> StoryRowOf(k, p.type_every, p.date_every)] :
          n \in 0..MaxRows, p \in MissingPatterns }

WeatherSeeds == {0, 5}

---------------------------------------------------------------------------
(* ActivityAnalyzer.analyze_activity and get_summary_string *)

\* round(n / d) to an integer, d > 0.  At an exact tie the double that
\* holds the quotient decides: either neighbour.
RoundDiv(n, d, tie) ==
    IF 2 * (n % d) = d THEN (n \div d) + tie
    ELSE IF 2 * (n % d) > d THEN (n \div d) + 1
    ELSE n \div d

\* The tie decisions of one call: of the relative effort, of the zone
\* percentages and of the basic fields.
Ties == [effort : {0, 1}, pct : {0, 1}, basic : {0, 1}]

\* The files of one activity next to the index.
FileKinds == {"detail", "heartrate", "time"}

\* get_stream_data, lines 116-138: None (absent) when the activity is not
\* in the index or has no stream file, else the file's 'data' list.
get_stream_data(in_index, files, stream_type, data) ==
    IF in_index /\ stream_type \in files
    THEN [absent |-> FALSE, data |-> data]
    ELSE [absent |-> TRUE, data |-> << >>]

\* A stream counted as present whenever it is not None.
NotNone(stream) == ~ stream.absent

\* The truth value of a stream at line 221: None and [] are false.
Truthy(stream) == ~ stream.absent /\ Len(stream.data) > 0

\* Lines 195-216, the fields taken from the activity detail.  Lengths are
\* in metres, speeds in mm/s in the detail; total_distance_km and the
\* speeds of the analysis are in hundredths (round(x, 2)).
basic_fields(detail, tie) ==
    [name |-> RowGet(detail, "name", "Unknown"),
     date |-> RowGet(detail, "start_date", "Unknown"),
     type |-> RowGet(detail, "type", "Unknown"),
     total_time |-> format_duration(RowGet(detail, "elapsed_time", 0)),
     moving_time |-> format_duration(RowGet(detail, "moving_time", 0)),
     total_distance_m |-> RowGet(detail, "distance", 0),
     total_distance_km |-> RoundDiv(RowGet(detail, "distance", 0), 10, tie),
     elevation_gain_m |-> RowGet(detail, "total_elevation_gain", 0),
     average_speed_ms |->
         RoundDiv(RowGet(detail, "average_speed", 0), 10, tie),
     average_speed_kmh |->
         RoundDiv(36 * RowGet(detail, "average_speed", 0), 100, tie),
     max_speed_ms |-> RoundDiv(RowGet(detail, "max_speed", 0), 10, tie),
     max_speed_kmh |->
         RoundDiv(36 * RowGet(detail, "max_speed", 0), 100, tie)]

NoBasicFields == basic_fields(<< >>, 0)

\* Lines 233-245 with int() in place of round(percentage, 1).
hr_zone_percentages_truncating(zd, tie) ==
    LET total_time_with_hr == SumFn(zd, DOMAIN zd)
    IN  [z \in DOMAIN zd |->
            IF total_time_with_hr > 0
            THEN (1000 * zd[z]) \div total_time_with_hr
            ELSE 0]

\* Lines 233-245: each zone's share of the time attributed to a zone, in
\* tenths of a percent (round(percentage, 1)); 0 when no time is.
hr_zone_percentages(zd, tie) ==
    LET total_time_with_hr == SumFn(zd, DOMAIN zd)
    IN  [z \in DOMAIN zd |->
            IF total_time_with_hr > 0
            THEN RoundDiv(1000 * zd[z], total_time_with_hr, tie)
            ELSE 0]

NoAnalysis ==
    [kind |-> "none", hr |-> FALSE, zones |-> EmptyMap,
     hr_zone_percentages |-> EmptyMap, relative_effort |-> 0,
     basic |-> NoBasicFields]

\* get_activity_detail answering an identifier that is not in the index
\* with an empty detail.
get_activity_detail_defaulting(in_index, files, detail) ==
    IF in_index /\ "detail" \in files
    THEN [kind |-> "detail", detail |-> detail]
    ELSE [kind |-> "detail", detail |-> << >>]

\* get_activity_detail, lines 96-114: ValueError for an identifier that is
\* not in the index, FileNotFoundError without a detail file.
get_activity_detail(in_index, files, detail) ==
    IF ~ in_index THEN [kind |-> "ValueError", detail |-> << >>]
    ELSE IF "detail" \notin files
    THEN [kind |-> "FileNotFoundError", detail |-> << >>]
    ELSE [kind |-> "detail", detail |-> detail]

\* Lines 183-255.  An exception of get_activity_detail propagates.  The
\* basic fields come from the detail; with both streams present the zones,
\* their percentages and the relative effort are computed, and an
\* exception of calculate_hr_zones propagates; otherwise the maps are
\* empty and the relative effort is 0.
analyze_activity(in_index, files, detail, hr, tm, mx, ties) ==
    LET activity_detail_read == get_activity_detail(in_index, files, detail)
        heartrate == get_stream_data(in_index, files, "heartrate", hr)
        time == get_stream_data(in_index, files, "time", tm)
        basic == basic_fields(activity_detail_read.detail, ties.basic)
    IN  IF activity_detail_read.kind # "detail"
        THEN Raised(activity_detail_read.kind)
        ELSE IF Truthy(heartrate) /\ Truthy(time)
        THEN LET z == calculate_hr_zones(heartrate.data, time.data, mx)
             IN  IF z.kind = "map"
                 THEN [kind |-> "record", hr |-> TRUE, zones |-> z.zones,
                       hr_zone_percentages |->
                           hr_zone_percentages(z.zones, ties.pct),
                       relative_effort |->
                           calculate_relative_effort(z.zones, ties.effort),
                       basic |-> basic]
                 ELSE Raised(z.kind)
        ELSE [kind |-> "record", hr |-> FALSE, zones |-> EmptyMap,
              hr_zone_percentages |-> EmptyMap, relative_effort |-> 0,
              basic |-> basic]

\* Line 362: the text between the brackets of a zone's name, blanks
\* replaced by underscores.
zone_short(zone) ==
    CASE zone = Zone1 -> "Active_Recovery"
      [] zone = Zone2 -> "Aerobic_Base"
      [] zone = Zone3 -> "Aerobic"
      [] zone = Zone4 -> "Lactate_Threshold"
      [] zone = Zone5 -> "VO2_Max"

\* Lines 358-363: the zones of hr_zone_durations in the dictionary's order
\* (that of HR_ZONES), those with a percentage above 0 kept; k zones done.
RECURSIVE zone_parts(_, _)
zone_parts(an, k) ==
    IF k = 0 THEN << >>
    ELSE LET zone == HR_ZONES[k].name
             before == zone_parts(an, k - 1)
         IN  IF an.hr_zone_percentages[zone] > 0
             THEN Append(before,
                         [zone |-> zone_short(zone),
                          percentage |-> an.hr_zone_percentages[zone]])
             ELSE before

\* analysis['date'][:10] of the dates the details carry.
FirstTen(date) ==
    IF date = "2024-03-14T07:30:00Z" THEN "2024-03-14" ELSE date

\* get_summary_string, lines 353-374, by the parts of its text: the basic
\* fields it prints and, when the analysis has heart-rate data, the list
\* HR_zones with average heart rate and relative effort.
get_summary_string(an) ==
    [name |-> an.basic.name,
     type |-> an.basic.type,
     date |-> FirstTen(an.basic.date),
     distance_km |-> an.basic.total_distance_km,
     moving_time |-> an.basic.moving_time,
     total_time |-> an.basic.total_time,
     avg_speed_kmh |-> an.basic.average_speed_kmh,
     elevation_m |-> an.basic.elevation_gain_m,
     has_hr_zones |-> an.hr /\ DOMAIN an.zones # {},
     HR_zones |-> IF an.hr /\ DOMAIN an.zones # {}
                  THEN zone_parts(an, Len(HR_ZONES))
                  ELSE << >>,
     relative_effort |-> IF an.hr /\ DOMAIN an.zones # {}
                         THEN an.relative_effort
                         ELSE 0]

NoSummaryString == get_summary_string(NoAnalysis)

\* The streams of the analysed activity: none, or the spec's example.
MainStreams ==
    { [heartrate |-> << >>, time |-> << >>],
      [heartrate |-> <<100, 150, 100>>, time |-> <<0, 60, 120>>] }

\* Activity details: one with every field (distance 20.055 km, a tie of
\* round(x, 2)), one with the identifier only.
ActivityDetails ==
    { [name |-> "Morning Ride", start_date |-> "2024-03-14T07:30:00Z",
       type |-> "Ride", elapsed_time |-> 3725, moving_time |-> 3600,
       distance |-> 20055, total_elevation_gain |-> 120,
       average_speed |-> 5571, max_speed |-> 12345],
      [id |-> 3] }

\* Streams of analyze_activity: samples outside every zone (47%), in zone 1
\* and in zone 3 of max_hr 190; timestamps with intervals of 60 and 120
\* seconds.
AnalyzeHRValues == {90, 100, 150}
AnalyzeTimeValues == {0, 60, 180}
AnalyzeHeartrateStreams == SeqsUpTo(AnalyzeHRValues, MaxLen)
AnalyzeTimeStreams ==
    { t \in SeqsUpTo(AnalyzeTimeValues, MaxLen) : IsNonDecreasing(t) }

\* The files of the activities directory: activity 10 has no detail file
\* (get_activity_detail raises FileNotFoundError), the streams of activity
\* 11 differ in length (calculate_hr_zones raises ValueError), the others
\* have a detail and no stream files.
ActivitiesDir(id) ==
    CASE id = 10 -> [files |-> {}, heartrate |-> << >>, time |-> << >>]
      [] id = 11 -> [files |-> FileKinds, heartrate |-> <<100, 150>>,
                     time |-> <<0>>]
      [] OTHER -> [files |-> {"detail"}, heartrate |-> << >>,
                   time |-> << >>]
Timeframes == {"week", "month", "year"}
MaxActivitiesValues == {NoCap, Cap(0), Cap(1), Cap(2)}

---------------------------------------------------------------------------
(* ActivityAnalyzer: what the methods leave of the analyzer *)

\* Lines 29-44: the two class attributes.
ZoneTables ==
    [HR_ZONES |-> HR_ZONES,
     ZONE_EFFORT_MULTIPLIERS |-> ZONE_EFFORT_MULTIPLIERS]

\* The analyzer sorting self.activity_index itself, as
\* self.activity_index.sort(key=..., reverse=True) would.
activity_index_sorted_in_place(index) == SortDescending(index)

\* self.activity_index after get_activities_by_timeframe.  Line 264 makes
\* the new list filtered_activities; the appends of lines 276, 282 and 287,
\* the sort of line 290 and the slice of line 294 act on that list.  The
\* index is only iterated (line 266).
activity_index_after_scan(index) == index

\* The streams the callers pass: a recorded one, one whose lengths differ
\* and an empty one.
RepeatStreams ==
    { << <<100, 150, 171>>, <<0, 60, 120>> >>,
      << <<100, 150>>, <<0>> >>,
      << << >>, << >> >> }

\* The zone maps the callers pass: the second one scores 0.05, a tie of
\* round(total_effort, 1).
RepeatZoneDurations ==
    { EmptyMap,
      [ZeroDurations EXCEPT ![Zone1] = 3],
      [ZeroDurations EXCEPT ![Zone2] = 60, ![Zone4] = 7] }

\* The anchor, timeframe and cap the callers pass.
RepeatTimeframes ==
    { <<Date(2024, 3, 14), "week", NoCap>>,
      <<Date(2024, 3, 14), "month", NoCap>>,
      <<Date(2024, 3, 14), "year", Cap(1)>> }

\* activity_index.json: in no order of date, with a malformed entry, empty.
RepeatIndexes ==
    { << Activities[2], Activities[4], Activities[1], Activities[3],
         Activities[7] >>,
      << Activities[3], BrokenActivities[1], Activities[4] >>,
      << >> }

\* Before any call.
NoCalls ==
    [calculate_hr_zones |-> {},
     calculate_relative_effort |-> {},
     get_activities_by_timeframe |-> {},
     summarize_timeframe_activities |-> {}]

---------------------------------------------------------------------------
(* The parts of the state a specification leaves alone. *)

ZonesIdle ==
    /\ heartrate_data = << >>
    /\ time_data = << >>
    /\ max_hr = 0
    /\ zones_out = NoResult
    /\ zpc = "idle"

EffortIdle ==
    /\ zone_durations = EmptyMap
    /\ relative_effort = 0
    /\ prev_relative_effort = 0
    /\ last_added = NoneAdded
    /\ epc = "idle"

EnvIdle ==
    /\ birth_year = Unset
    /\ current_year = 0

StoryIdle ==
    /\ story_max_hr = NoneResult
    /\ spc = "idle"

LevelIdle ==
    /\ row = << >>
    /\ effort_level = ""
    /\ lpc = "idle"

TerrainIdle ==
    /\ terrain_row = << >>
    /\ terrain_type = ""
    /\ tpc = "idle"

VariabilityIdle ==
    /\ distance_data = << >>
    /\ speed_time_data = << >>
    /\ story_speeds = << >>
    /\ story_speed_var = NoneVar
    /\ story_cell = NaNVar
    /\ vspc = "idle"
    /\ enhanced_speeds = << >>
    /\ enhanced_speed_var = NoneVar
    /\ enhanced_cell = NaNVar
    /\ vepc = "idle"

TimeframeIdle ==
    /\ activity_index = << >>
    /\ target_date = Date(1, 1, 1)
    /\ timeframe = ""
    /\ max_activities = NoCap
    /\ filtered_activities = << >>
    /\ timeframe_summary = NoActivitiesSummary
    /\ tf_error = ""
    /\ context_analysed = << >>
    /\ context_failed = << >>
    /\ fpc = "idle"

StoryTellingIdle ==
    /\ story_row = << >>
    /\ weather_first = ""
    /\ story_first = NoStory
    /\ weather_second = ""
    /\ story_second = NoStory
    /\ gpc = "idle"

BatchIdle ==
    /\ activities_df = << >>
    /\ rng_seed = 0
    /\ connected = FALSE
    /\ idx = 0
    /\ stories = << >>
    /\ metadatas = << >>
    /\ ids = << >>
    /\ story_errors = << >>
    /\ store_i = 0
    /\ upsert_calls = << >>
    /\ store_error = FALSE
    /\ bpc = "idle"

RepeatIdle ==
    /\ zone_tables = ZoneTables
    /\ constructed = << >>
    /\ float_ties = [effort |-> 0, km |-> 0]
    /\ returned = NoCalls
    /\ repeated = FALSE
    /\ ncalls = 0
    /\ rpc = "idle"

MainIdle ==
    /\ activity_in_index = FALSE
    /\ analysis = NoAnalysis
    /\ error = ""
    /\ mpc = "idle"
    /\ activity_files = {}
    /\ activity_detail = << >>
    /\ summary_string = NoSummaryString

---------------------------------------------------------------------------
(* The zone classifier as a state machine: the streams and max_hr are     *)
(* drawn, then calculate_hr_zones is called once.                          *)

InitZones ==
    /\ heartrate_data \in HeartrateStreams
    /\ time_data \in TimeStreams
    /\ max_hr \in MaxHrValues
    /\ zones_out = NoResult
    /\ zpc = "call"
    /\ EffortIdle /\ EnvIdle /\ StoryIdle /\ LevelIdle /\ MainIdle
    /\ TerrainIdle /\ VariabilityIdle /\ TimeframeIdle
    /\ StoryTellingIdle /\ BatchIdle /\ RepeatIdle

CalculateHrZones ==
    /\ zpc = "call"
    /\ zones_out' = calculate_hr_zones(heartrate_data, time_data, max_hr)
    /\ zpc' = "done"
    /\ UNCHANGED <<heartrate_data, time_data, max_hr>>
    /\ UNCHANGED <<evars, envvars, svars, lvars, mvars, tvars, vvars,
                   fvars, gvars, bvars, rvars>>

NextZones == CalculateHrZones

SpecZones == InitZones /\ [][NextZones]_vars

---------------------------------------------------------------------------
(* The scorer as a state machine: it is called on the empty map or on the  *)
(* zero-filled map, then again each time one zone of the map has grown.    *)

InitEffort ==
    /\ zone_durations \in {EmptyMap, ZeroDurations}
    /\ relative_effort = 0
    /\ prev_relative_effort = 0
    /\ last_added = NoneAdded
    /\ epc = "call"
    /\ ZonesIdle /\ EnvIdle /\ StoryIdle /\ LevelIdle /\ MainIdle
    /\ TerrainIdle /\ VariabilityIdle /\ TimeframeIdle
    /\ StoryTellingIdle /\ BatchIdle /\ RepeatIdle

CalculateRelativeEffort ==
    /\ epc = "call"
    /\ \E tie \in {0, 1} :
           relative_effort' = calculate_relative_effort(zone_durations, tie)
    /\ epc' = "scored"
    /\ UNCHANGED <<zone_durations, prev_relative_effort, last_added>>
    /\ UNCHANGED <<zvars, envvars, svars, lvars, mvars, tvars, vvars,
                   fvars, gvars, bvars, rvars>>

\* One zone's duration grows by some seconds and the map is scored again.
RescoreLongerZone ==
    /\ epc = "scored"
    /\ \E z \in DOMAIN zone_durations,
          seconds \in 1..(MaxTotalSeconds - TotalSeconds(zone_durations)),
          tie \in {0, 1} :
           /\ zone_durations' = [zone_durations EXCEPT ![z] = @ + seconds]
           /\ last_added' = [zone |-> z, seconds |-> seconds]
           /\ prev_relative_effort' = relative_effort
           /\ relative_effort' =
                  calculate_relative_effort(zone_durations', tie)
    /\ UNCHANGED epc
    /\ UNCHANGED <<zvars, envvars, svars, lvars, mvars, tvars, vvars,
                   fvars, gvars, bvars, rvars>>

NextEffort == CalculateRelativeEffort \/ RescoreLongerZone

SpecEffort == InitEffort /\ [][NextEffort]_vars

---------------------------------------------------------------------------
(* The two max-heart-rate estimators under one environment: the story      *)
(* generator calls its _calculate_max_hr; activity_analyzer.main constructs *)
(* an ActivityAnalyzer (the index file is there to be loaded) and analyses  *)
(* one activity.                                                            *)

InitMaxHr ==
    /\ birth_year \in BirthYearEnv
    /\ current_year \in CurrentYears
    /\ story_max_hr = NoneResult
    /\ spc = "call"
    /\ activity_in_index \in BOOLEAN
    /\ \E st \in MainStreams :
           heartrate_data = st.heartrate /\ time_data = st.time
    /\ max_hr = 0
    /\ zones_out = NoResult
    /\ zpc = "idle"
    /\ analysis = NoAnalysis
    /\ error = ""
    /\ mpc = "start"
    /\ activity_files = FileKinds
    /\ activity_detail \in ActivityDetails
    /\ summary_string = NoSummaryString
    /\ EffortIdle /\ LevelIdle /\ TerrainIdle /\ VariabilityIdle
    /\ TimeframeIdle /\ StoryTellingIdle /\ BatchIdle /\ RepeatIdle

StoryCalculateMaxHr ==
    /\ spc = "call"
    /\ story_max_hr' = story_calculate_max_hr(birth_year, current_year)
    /\ spc' = "done"
    /\ UNCHANGED <<zvars, evars, envvars, lvars, mvars, tvars, vvars,
                   fvars, gvars, bvars, rvars>>

\* analyzer = ActivityAnalyzer(): __init__ sets self.max_hr, or raises into
\* main's except clause, which prints the error and exits with status 1.
AnalyzerInit ==
    /\ mpc = "start"
    /\ LET r == analyzer_calculate_max_hr(birth_year, current_year)
       IN  IF r.kind = "int"
           THEN /\ max_hr' = r.value
                /\ mpc' = "constructed"
                /\ error' = ""
           ELSE /\ max_hr' = max_hr
                /\ mpc' = "exit1"
                /\ error' = r.kind
    /\ UNCHANGED <<heartrate_data, time_data, zones_out, zpc>>
    /\ UNCHANGED <<activity_in_index, analysis, activity_files,
                   activity_detail, summary_string>>
    /\ UNCHANGED <<evars, envvars, svars, lvars, tvars, vvars, fvars,
                   gvars, bvars, rvars>>

\* analysis = analyzer.analyze_activity(activity_id), the summary and the
\* JSON file; an exception ends main with status 1 and no analysis.
MainAnalyzeActivity ==
    /\ mpc = "constructed"
    /\ \E ties \in Ties :
           LET r == analyze_activity(activity_in_index, activity_files,
                                     activity_detail, heartrate_data,
                                     time_data, max_hr, ties)
           IN  IF r.kind = "record"
               THEN /\ analysis' = r
                    /\ summary_string' = get_summary_string(r)
                    /\ mpc' = "exit0"
                    /\ error' = ""
               ELSE /\ analysis' = analysis
                    /\ summary_string' = summary_string
                    /\ mpc' = "exit1"
                    /\ error' = r.kind
    /\ UNCHANGED <<zvars, activity_in_index, activity_files, activity_detail,
                   rvars>>
    /\ UNCHANGED <<evars, envvars, svars, lvars, tvars, vvars, fvars,
                   gvars, bvars, rvars>>

NextMaxHr == StoryCalculateMaxHr \/ AnalyzerInit \/ MainAnalyzeActivity

SpecMaxHr == InitMaxHr /\ [][NextMaxHr]_vars

---------------------------------------------------------------------------
(* analyze_activity and get_summary_string as a state machine: an          *)
(* analyzer with its max_hr and one activity (its index entry, files,      *)
(* detail and streams) are drawn; the activity is analysed, then the       *)
(* summary string of the analysis is built.                                *)

InitAnalyze ==
    /\ heartrate_data \in AnalyzeHeartrateStreams
    /\ time_data \in AnalyzeTimeStreams
    /\ max_hr \in MaxHrValues
    /\ zones_out = NoResult
    /\ zpc = "idle"
    /\ activity_in_index \in BOOLEAN
    /\ activity_files \in SUBSET FileKinds
    /\ activity_detail \in ActivityDetails
    /\ analysis = NoAnalysis
    /\ summary_string = NoSummaryString
    /\ error = ""
    /\ mpc = "analyze"
    /\ EffortIdle /\ EnvIdle /\ StoryIdle /\ LevelIdle /\ TerrainIdle
    /\ VariabilityIdle /\ TimeframeIdle /\ StoryTellingIdle /\ BatchIdle
    /\ RepeatIdle

AnalyzeActivity ==
    /\ mpc = "analyze"
    /\ \E ties \in Ties :
           LET r == analyze_activity(activity_in_index, activity_files,
                                     activity_detail, heartrate_data,
                                     time_data, max_hr, ties)
           IN  IF r.kind = "record"
               THEN /\ analysis' = r
                    /\ mpc' = "analysed"
                    /\ error' = ""
               ELSE /\ analysis' = analysis
                    /\ mpc' = "raised"
                    /\ error' = r.kind
    /\ UNCHANGED <<zvars, activity_in_index, activity_files,
                   activity_detail, summary_string, rvars>>
    /\ UNCHANGED <<evars, envvars, svars, lvars, tvars, vvars, fvars,
                   gvars, bvars, rvars>>

GetSummaryString ==
    /\ mpc = "analysed"
    /\ summary_string' = get_summary_string(analysis)
    /\ mpc' = "summary"
    /\ UNCHANGED <<zvars, activity_in_index, activity_files,
                   activity_detail, analysis, error, rvars>>
    /\ UNCHANGED <<evars, envvars, svars, lvars, tvars, vvars, fvars,
                   gvars, bvars, rvars>>

NextAnalyze == AnalyzeActivity \/ GetSummaryString

SpecAnalyze == InitAnalyze /\ [][NextAnalyze]_vars

---------------------------------------------------------------------------
(* The effort-level classifier as a state machine: a row and the           *)
(* environment are drawn, then _determine_effort_level is called once.     *)

InitLevel ==
    /\ birth_year \in LevelBirthYearEnv
    /\ current_year \in CurrentYears
    /\ row \in Rows
    /\ effort_level = ""
    /\ lpc = "call"
    /\ ZonesIdle /\ EffortIdle /\ StoryIdle /\ MainIdle /\ TerrainIdle
    /\ VariabilityIdle /\ TimeframeIdle /\ StoryTellingIdle /\ BatchIdle
    /\ RepeatIdle

DetermineEffortLevel ==
    /\ lpc = "call"
    /\ effort_level' = determine_effort_level(row, birth_year, current_year)
    /\ lpc' = "done"
    /\ UNCHANGED row
    /\ UNCHANGED <<zvars, evars, envvars, svars, mvars, tvars, vvars,
                   fvars, gvars, bvars, rvars>>

NextLevel == DetermineEffortLevel

SpecLevel == InitLevel /\ [][NextLevel]_vars

---------------------------------------------------------------------------
(* The terrain classifier as a state machine: a row is drawn, then         *)
(* _determine_terrain_type is called once.                                 *)

InitTerrain ==
    /\ terrain_row \in TerrainRows
    /\ terrain_type = ""
    /\ tpc = "call"
    /\ ZonesIdle /\ EffortIdle /\ EnvIdle /\ StoryIdle /\ LevelIdle
    /\ MainIdle /\ VariabilityIdle /\ TimeframeIdle /\ StoryTellingIdle
    /\ BatchIdle /\ RepeatIdle

DetermineTerrainType ==
    /\ tpc = "call"
    /\ terrain_type' = determine_terrain_type(terrain_row)
    /\ tpc' = "done"
    /\ UNCHANGED terrain_row
    /\ UNCHANGED <<zvars, evars, envvars, svars, lvars, mvars, vvars,
                   fvars, gvars, bvars, rvars>>

NextTerrain == DetermineTerrainType

SpecTerrain == InitTerrain /\ [][NextTerrain]_vars

---------------------------------------------------------------------------
(* The variability analyzers as a state machine: the two streams of an     *)
(* activity are drawn; the story generator's _add_stream_analytics and the *)
(* enhanced analyzer's _preprocess_data each run once, in either order.    *)

InitVariability ==
    /\ distance_data \in DistanceStreams
    /\ speed_time_data \in SpeedTimeStreams
    /\ story_speeds = << >>
    /\ story_speed_var = NoneVar
    /\ story_cell = NaNVar
    /\ vspc = "call"
    /\ enhanced_speeds = << >>
    /\ enhanced_speed_var = NoneVar
    /\ enhanced_cell = NaNVar
    /\ vepc = "call"
    /\ ZonesIdle /\ EffortIdle /\ EnvIdle /\ StoryIdle /\ LevelIdle
    /\ MainIdle /\ TerrainIdle /\ TimeframeIdle /\ StoryTellingIdle
    /\ BatchIdle /\ RepeatIdle

\* story_generator.py, lines 176 and 198-200.
StoryAddStreamAnalytics ==
    /\ vspc = "call"
    /\ LET r == story_calculate_speed_variability(distance_data,
                                                  speed_time_data)
       IN  /\ story_speeds' = r.speeds
           /\ story_speed_var' = r.result
           /\ story_cell' = CellOf(r.result)
    /\ vspc' = "done"
    /\ UNCHANGED <<distance_data, speed_time_data, enhanced_speeds,
                   enhanced_speed_var, enhanced_cell, vepc>>
    /\ UNCHANGED <<zvars, evars, envvars, svars, lvars, mvars, tvars,
                   fvars, gvars, bvars, rvars>>

\* enhanced_analyzer.py, lines 95-118 and 134, 164-166: the cell is
\* filled by _add_stream_analysis, then fillna(0) runs.
EnhancedPreprocessData ==
    /\ vepc = "call"
    /\ LET r == enhanced_calculate_speed_variability(distance_data,
                                                     speed_time_data)
       IN  /\ enhanced_speeds' = r.speeds
           /\ enhanced_speed_var' = r.result
           /\ enhanced_cell' = FillNa(CellOf(r.result))
    /\ vepc' = "done"
    /\ UNCHANGED <<distance_data, speed_time_data, story_speeds,
                   story_speed_var, story_cell, vspc>>
    /\ UNCHANGED <<zvars, evars, envvars, svars, lvars, mvars, tvars,
                   fvars, gvars, bvars, rvars>>

NextVariability == StoryAddStreamAnalytics \/ EnhancedPreprocessData

SpecVariability == InitVariability /\ [][NextVariability]_vars

---------------------------------------------------------------------------
(* The timeframe context as a state machine: an index, an anchor date, a   *)
(* timeframe and a cap are drawn; then one of the public operations runs:  *)
(* get_activities_by_timeframe, summarize_timeframe_activities (whose       *)
(* result print_summary may then print as context), print_timeframe_summary *)
(* or the context part of main.                                            *)

InitTimeframe ==
    /\ activity_index \in ActivityIndexes
    /\ target_date \in AnchorDates
    /\ timeframe \in Timeframes
    /\ max_activities \in MaxActivitiesValues
    /\ filtered_activities = << >>
    /\ timeframe_summary = NoActivitiesSummary
    /\ tf_error = ""
    /\ context_analysed = << >>
    /\ context_failed = << >>
    /\ fpc = "call"
    /\ ZonesIdle /\ EffortIdle /\ EnvIdle /\ StoryIdle /\ LevelIdle
    /\ MainIdle /\ TerrainIdle /\ VariabilityIdle /\ StoryTellingIdle
    /\ BatchIdle /\ RepeatIdle

tf_inputs == <<activity_index, target_date, timeframe, max_activities>>

\* Lines 257-296.  An entry whose start_date is no ISO date raises out of
\* the loop at line 267.
GetActivitiesByTimeframe ==
    /\ fpc = "call"
    /\ IF IndexParses(activity_index)
       THEN /\ filtered_activities' =
                   get_activities_by_timeframe(activity_index, target_date,
                                               timeframe, max_activities)
            /\ tf_error' = ""
            /\ fpc' = "got"
       ELSE /\ filtered_activities' = filtered_activities
            /\ tf_error' = "ValueError"
            /\ fpc' = "raised"
    /\ UNCHANGED <<tf_inputs, timeframe_summary, context_analysed,
                   context_failed>>
    /\ UNCHANGED <<zvars, evars, envvars, svars, lvars, mvars, tvars, vvars,
                   gvars, bvars, rvars>>

\* Lines 298-342.
SummarizeTimeframeActivities ==
    /\ fpc = "call"
    /\ IF IndexParses(activity_index)
       THEN /\ \E tie \in {0, 1} :
                   timeframe_summary' =
                       summarize_timeframe_activities(
                           activity_index, target_date, timeframe,
                           max_activities, tie)
            /\ filtered_activities' = timeframe_summary'.activities_list
            /\ tf_error' = ""
            /\ fpc' = "summarized"
       ELSE /\ UNCHANGED <<timeframe_summary, filtered_activities>>
            /\ tf_error' = "ValueError"
            /\ fpc' = "raised"
    /\ UNCHANGED <<tf_inputs, context_analysed, context_failed>>
    /\ UNCHANGED <<zvars, evars, envvars, svars, lvars, mvars, tvars, vvars,
                   gvars, bvars, rvars>>

\* Lines 385-393: print_summary on an analysis holding the summary under
\* '<timeframe>_context'; the section is skipped without 'summary_string'.
PrintSummaryContext ==
    /\ fpc = "summarized"
    /\ tf_error' = ""
    /\ fpc' = "print_summary"
    /\ UNCHANGED <<tf_inputs, filtered_activities, timeframe_summary,
                   context_analysed, context_failed>>
    /\ UNCHANGED <<zvars, evars, envvars, svars, lvars, mvars, tvars, vvars,
                   gvars, bvars, rvars>>

\* Lines 344-351: summary['summary_string'] is read whatever was returned.
PrintTimeframeSummary ==
    /\ fpc = "call"
    /\ IF IndexParses(activity_index)
       THEN /\ \E tie \in {0, 1} :
                   timeframe_summary' =
                       summarize_timeframe_activities(
                           activity_index, target_date, timeframe,
                           max_activities, tie)
            /\ filtered_activities' = timeframe_summary'.activities_list
            /\ tf_error' = IF HasSummaryString(timeframe_summary') THEN ""
                           ELSE "KeyError"
            /\ fpc' = "print_timeframe_summary"
       ELSE /\ UNCHANGED <<timeframe_summary, filtered_activities>>
            /\ tf_error' = "ValueError"
            /\ fpc' = "raised"
    /\ UNCHANGED <<tf_inputs, context_analysed, context_failed>>
    /\ UNCHANGED <<zvars, evars, envvars, svars, lvars, mvars, tvars, vvars,
                   gvars, bvars, rvars>>

\* The analysed activity of main: the one of the index with the anchor date.
AnchorInIndex ==
    \E k \in DOMAIN activity_index :
        activity_index[k]["start_date"] = target_date

\* analyzer.analyze_activity(context_activity['id']) inside the try of
\* lines 444-450: whether it returns an analysis.
ContextAnalysable(a) ==
    LET at == ActivitiesDir(a["id"])
    IN  analyze_activity(TRUE, at.files, [id |-> a["id"]], at.heartrate,
                         at.time, max_hr,
                         [effort |-> 0, pct |-> 0, basic |-> 0]).kind
            = "record"

\* main, lines 428-452: the summary is stored in the analysis and every
\* activity of .get('activities_list', []) but the analysed one is analysed
\* in turn, each in its own try: one that raises is reported by "Could not
\* analyze activity" and the loop goes on.  An exception of
\* summarize_timeframe_activities reaches the outer except: exit status 1.
MainContext ==
    /\ fpc = "call"
    /\ AnchorInIndex
    /\ IF IndexParses(activity_index)
       THEN /\ \E tie \in {0, 1} :
                   timeframe_summary' =
                       summarize_timeframe_activities(
                           activity_index, target_date, timeframe,
                           max_activities, tie)
            /\ filtered_activities' = timeframe_summary'.activities_list
            /\ LET others(a) == a["start_date"] # target_date
                   failing(a) == ~ ContextAnalysable(a)
                   ctx == SelectSeq(timeframe_summary'.activities_list,
                                    others)
                   done == SelectSeq(ctx, ContextAnalysable)
                   failed == SelectSeq(ctx, failing)
               IN  /\ context_analysed' = [k \in DOMAIN done |-> done[k]["id"]]
                   /\ context_failed' =
                          [k \in DOMAIN failed |-> failed[k]["id"]]
            /\ tf_error' = ""
            /\ fpc' = "main"
       ELSE /\ UNCHANGED <<timeframe_summary, filtered_activities,
                           context_analysed, context_failed>>
            /\ tf_error' = "ValueError"
            /\ fpc' = "main_exit1"
    /\ UNCHANGED tf_inputs
    /\ UNCHANGED <<zvars, evars, envvars, svars, lvars, mvars, tvars, vvars,
                   gvars, bvars, rvars>>

NextTimeframe ==
    \/ GetActivitiesByTimeframe
    \/ SummarizeTimeframeActivities
    \/ PrintSummaryContext
    \/ PrintTimeframeSummary
    \/ MainContext

SpecTimeframe == InitTimeframe /\ [][NextTimeframe]_vars

---------------------------------------------------------------------------
(* generate_activity_story as a state machine: a row is drawn and the      *)
(* story of it is generated twice, each run drawing its weather phrase.    *)

InitStory ==
    /\ story_row \in StoryRows
    /\ weather_first = ""
    /\ story_first = NoStory
    /\ weather_second = ""
    /\ story_second = NoStory
    /\ gpc = "call"
    /\ ZonesIdle /\ EffortIdle /\ EnvIdle /\ StoryIdle /\ LevelIdle
    /\ MainIdle /\ TerrainIdle /\ VariabilityIdle /\ TimeframeIdle
    /\ BatchIdle /\ RepeatIdle

GenerateActivityStory ==
    /\ gpc = "call"
    /\ \E weather \in Weathers :
           /\ weather_first' = weather
           /\ story_first' = generate_activity_story(story_row, weather)
    /\ gpc' = "once"
    /\ UNCHANGED <<story_row, weather_second, story_second>>
    /\ UNCHANGED <<zvars, evars, envvars, svars, lvars, mvars, tvars, vvars,
                   fvars, bvars, rvars>>

GenerateActivityStoryAgain ==
    /\ gpc = "once"
    /\ \E weather \in Weathers :
           /\ weather_second' = weather
           /\ story_second' = generate_activity_story(story_row, weather)
    /\ gpc' = "twice"
    /\ UNCHANGED <<story_row, weather_first, story_first>>
    /\ UNCHANGED <<zvars, evars, envvars, svars, lvars, mvars, tvars, vvars,
                   fvars, bvars, rvars>>

NextStory == GenerateActivityStory \/ GenerateActivityStoryAgain

SpecStory == InitStory /\ [][NextStory]_vars

---------------------------------------------------------------------------
(* The batches as a state machine: either generate_and_store_stories runs  *)
(* over a frame of activities (the loop of line 424 one row at a step, the *)
(* storing one upsert at a step), or main runs its timeframe context, or   *)
(* get_activities_by_timeframe is called, over an index that may hold      *)
(* activities that fail.                                                   *)

InitStoreStories ==
    /\ activities_df \in ActivityFrames
    /\ rng_seed \in WeatherSeeds
    /\ connected \in BOOLEAN
    /\ idx = 0
    /\ stories = << >>
    /\ metadatas = << >>
    /\ ids = << >>
    /\ story_errors = << >>
    /\ store_i = 0
    /\ upsert_calls = << >>
    /\ store_error = FALSE
    /\ bpc = "connect"
    /\ ZonesIdle /\ EffortIdle /\ EnvIdle /\ StoryIdle /\ LevelIdle
    /\ MainIdle /\ TerrainIdle /\ VariabilityIdle /\ TimeframeIdle
    /\ StoryTellingIdle /\ RepeatIdle

\* The index: up to MaxIndex different activities of the week of
\* 2024-03-14, sound and broken ones.
BatchIndexes ==
    LET catalog == SubSeq(Activities, 2, 4) \o BrokenActivities
    IN  { [k \in DOMAIN s |-> catalog[s[k]]] :
              s \in { t \in SeqsUpTo(DOMAIN catalog, MaxIndex) :
                          IsInjective(t) } }

InitContextBatch ==
    /\ activity_index \in BatchIndexes
    /\ target_date = Date(2024, 3, 14)
    /\ timeframe \in Timeframes
    /\ max_activities \in {NoCap, Cap(2)}
    /\ filtered_activities = << >>
    /\ timeframe_summary = NoActivitiesSummary
    /\ tf_error = ""
    /\ context_analysed = << >>
    /\ context_failed = << >>
    /\ fpc = "call"
    /\ ZonesIdle /\ EffortIdle /\ EnvIdle /\ StoryIdle /\ LevelIdle
    /\ MainIdle /\ TerrainIdle /\ VariabilityIdle /\ StoryTellingIdle
    /\ BatchIdle /\ RepeatIdle

InitBatch == InitStoreStories \/ InitContextBatch

\* Lines 411-418: without a connection nothing is generated.
ConnectToChromadb ==
    /\ bpc = "connect"
    /\ bpc' = IF connected THEN "loop" ELSE "returned"
    /\ UNCHANGED <<activities_df, rng_seed, connected, idx, stories,
                   metadatas, ids, story_errors, store_i, upsert_calls,
                   store_error>>
    /\ UNCHANGED <<zvars, evars, envvars, svars, lvars, mvars, tvars, vvars,
                   fvars, gvars, rvars>>

\* One iteration of the loop of lines 424-455: the story, the metadata,
\* then the three appends; an exception of either leaves the lists alone.
StoryLoopStep ==
    /\ bpc = "loop"
    /\ idx < Len(activities_df)
    /\ LET r == activities_df[idx + 1]
           story == generate_activity_story(r, DrawnWeather(rng_seed, idx))
           metadata == prepare_metadata(r)
       IN  IF story.kind = "story" /\ metadata.kind = "metadata"
           THEN /\ stories' = Append(stories, story)
                /\ metadatas' = Append(metadatas, metadata)
                /\ ids' = Append(ids, ToString(r["id"]))
                /\ story_errors' = story_errors
           ELSE /\ UNCHANGED <<stories, metadatas, ids>>
                /\ story_errors' = Append(story_errors, r["id"])
    /\ idx' = idx + 1
    /\ UNCHANGED <<activities_df, rng_seed, connected, store_i,
                   upsert_calls, store_error, bpc>>
    /\ UNCHANGED <<zvars, evars, envvars, svars, lvars, mvars, tvars, vvars,
                   fvars, gvars, rvars>>

\* Line 458: with no story nothing is stored.
StoryLoopEnd ==
    /\ bpc = "loop"
    /\ idx = Len(activities_df)
    /\ bpc' = IF Len(stories) > 0 THEN "store" ELSE "returned"
    /\ UNCHANGED <<activities_df, rng_seed, connected, idx, stories,
                   metadatas, ids, story_errors, store_i, upsert_calls,
                   store_error>>
    /\ UNCHANGED <<zvars, evars, envvars, svars, lvars, mvars, tvars, vvars,
                   fvars, gvars, rvars>>

\* One iteration of the loop of lines 467-476: the upsert of a batch
\* succeeds, or raises into the except of line 481, which ends the storing.
UpsertBatch ==
    /\ bpc = "store"
    /\ \E ok \in BOOLEAN :
           IF ok
           THEN /\ upsert_calls' =
                       Append(upsert_calls,
                              [documents |-> batch_slice(stories, store_i),
                               metadatas |-> batch_slice(metadatas, store_i),
                               ids |-> batch_slice(ids, store_i)])
                /\ store_i' = store_i + batch_size
                /\ store_error' = FALSE
                /\ bpc' = IF store_i + batch_size < Len(stories)
                          THEN "store" ELSE "returned"
           ELSE /\ UNCHANGED <<upsert_calls, store_i>>
                /\ store_error' = TRUE
                /\ bpc' = "returned"
    /\ UNCHANGED <<activities_df, rng_seed, connected, idx, stories,
                   metadatas, ids, story_errors>>
    /\ UNCHANGED <<zvars, evars, envvars, svars, lvars, mvars, tvars, vvars,
                   fvars, gvars, rvars>>

NextBatch ==
    \/ ConnectToChromadb
    \/ StoryLoopStep
    \/ StoryLoopEnd
    \/ UpsertBatch
    \/ GetActivitiesByTimeframe
    \/ MainContext

SpecBatch == InitBatch /\ [][NextBatch]_vars

---------------------------------------------------------------------------
(* One analyzer in use: after __init__ its methods are called in any order *)
(* and any number of times, up to MaxCalls calls.  Float arithmetic is a   *)
(* function of its operands: what it yields at a rounding tie is drawn     *)
(* once, not per call.                                                     *)

AnalyzerState ==
    [activity_index |-> activity_index,
     max_hr |-> max_hr,
     zone_tables |-> zone_tables]

InitRepeat ==
    /\ activity_index \in RepeatIndexes
    /\ max_hr \in MaxHrValues
    /\ zone_tables = ZoneTables
    /\ constructed = AnalyzerState
    /\ float_ties \in [effort : {0, 1}, km : {0, 1}]
    /\ returned = NoCalls
    /\ repeated = FALSE
    /\ ncalls = 0
    /\ rpc = "calls"
    /\ heartrate_data = << >>
    /\ time_data = << >>
    /\ zones_out = NoResult
    /\ zpc = "idle"
    /\ target_date = Date(1, 1, 1)
    /\ timeframe = ""
    /\ max_activities = NoCap
    /\ filtered_activities = << >>
    /\ timeframe_summary = NoActivitiesSummary
    /\ tf_error = ""
    /\ context_analysed = << >>
    /\ context_failed = << >>
    /\ fpc = "idle"
    /\ EffortIdle /\ EnvIdle /\ StoryIdle /\ LevelIdle /\ MainIdle
    /\ TerrainIdle /\ VariabilityIdle /\ StoryTellingIdle /\ BatchIdle

\* The bookkeeping of one call of a method: the pair of its arguments and
\* its outcome joins the calls made.
Record(method, args, result) ==
    /\ returned' = [returned EXCEPT
                        ![method] = @ \cup {[args |-> args,
                                             result |-> result]}]
    /\ repeated' = (repeated \/ \E c \in returned[method] : c.args = args)
    /\ ncalls' = ncalls + 1

repeat_frame ==
    <<heartrate_data, time_data, zones_out, zpc, target_date, timeframe,
      max_activities, filtered_activities, timeframe_summary, tf_error,
      context_analysed, context_failed, fpc, constructed, float_ties, rpc,
      evars, envvars, svars, lvars, mvars, tvars, vvars, gvars, bvars>>

\* Lines 140-162: zone_durations is a new dictionary (line 148); the
\* streams, self.max_hr and self.HR_ZONES are read.
AnyCalculateHrZones ==
    /\ rpc = "calls"
    /\ ncalls < MaxCalls
    /\ \E s \in RepeatStreams :
           Record("calculate_hr_zones", s,
                  calculate_hr_zones(s[1], s[2], max_hr))
    /\ UNCHANGED <<activity_index, max_hr, zone_tables>>
    /\ UNCHANGED repeat_frame

\* Lines 164-174: total_effort is a local; the map and
\* self.ZONE_EFFORT_MULTIPLIERS are read.
AnyCalculateRelativeEffort ==
    /\ rpc = "calls"
    /\ ncalls < MaxCalls
    /\ \E zd \in RepeatZoneDurations :
           Record("calculate_relative_effort", zd,
                  calculate_relative_effort(zd, float_ties.effort))
    /\ UNCHANGED <<activity_index, max_hr, zone_tables>>
    /\ UNCHANGED repeat_frame

\* Lines 257-296: the list, or the ValueError of line 267.
AnyGetActivitiesByTimeframe ==
    /\ rpc = "calls"
    /\ ncalls < MaxCalls
    /\ \E a \in RepeatTimeframes :
           Record("get_activities_by_timeframe", a,
                  IF IndexParses(activity_index)
                  THEN [kind |-> "list",
                        value |-> get_activities_by_timeframe(
                                      activity_index, a[1], a[2], a[3])]
                  ELSE [kind |-> "ValueError", value |-> << >>])
    /\ activity_index' = activity_index_after_scan(activity_index)
    /\ UNCHANGED <<max_hr, zone_tables>>
    /\ UNCHANGED repeat_frame

\* Lines 298-342, through get_activities_by_timeframe (line 300): the
\* summary, or the ValueError of line 267.
AnySummarizeTimeframeActivities ==
    /\ rpc = "calls"
    /\ ncalls < MaxCalls
    /\ \E a \in RepeatTimeframes :
           Record("summarize_timeframe_activities", a,
                  IF IndexParses(activity_index)
                  THEN [kind |-> "dict",
                        value |-> summarize_timeframe_activities(
                                      activity_index, a[1], a[2], a[3],
                                      float_ties.km)]
                  ELSE [kind |-> "ValueError",
                        value |-> NoActivitiesSummary])
    /\ activity_index' = activity_index_after_scan(activity_index)
    /\ UNCHANGED <<max_hr, zone_tables>>
    /\ UNCHANGED repeat_frame

NextRepeat ==
    \/ AnyCalculateHrZones
    \/ AnyCalculateRelativeEffort
    \/ AnyGetActivitiesByTimeframe
    \/ AnySummarizeTimeframeActivities

SpecRepeat == InitRepeat /\ [][NextRepeat]_vars

---------------------------------------------------------------------------
(* Claims about calculate_hr_zones, checked under SpecZones.               *)

\* The seconds of the intervals (i, i+1) whose opening sample lies in
\* [lo%, hi%) of max_hr, or in [lo%, hi%] when closed.
IntervalSeconds(lo, hi, closed) ==
    LET n == Len(heartrate_data)
        inside(i) ==
            /\ lo * max_hr <= 100 * heartrate_data[i]
            /\ IF closed THEN 100 * heartrate_data[i] <= hi * max_hr
                         ELSE 100 * heartrate_data[i] < hi * max_hr
    IN  SumFn([i \in 1..(n - 1) |->
                  IF inside(i) THEN time_data[i + 1] - time_data[i] ELSE 0],
              1..(n - 1))

ZonesReturned ==
    /\ zpc = "done"
    /\ Len(heartrate_data) = Len(time_data)
    /\ Len(heartrate_data) >= 1
    /\ max_hr > 0

\* C1: for equal-length streams of N >= 1 samples (and a max_hr the
\* percentage is defined for) calculate_hr_zones returns, for each of the
\* five zones, the sum of time[i+1]-time[i] over the consecutive pairs whose
\* opening sample's percentage lies in the zone's interval, lower bound
\* inclusive and upper bound exclusive; the final sample opens no interval
\* and samples outside all intervals add nothing.  For heartrate
\* [100,150,100], time [0,60,120], max_hr 190: Zone 1 = 60, Zone 3 = 60 and
\* Zones 2, 4, 5 = 0.
C1_ZoneSums ==
    ZonesReturned =>
        /\ zones_out.kind = "map"
        /\ DOMAIN zones_out.zones = {Zone1, Zone2, Zone3, Zone4, Zone5}
        /\ zones_out.zones[Zone1] = IntervalSeconds(50, 60, FALSE)
        /\ zones_out.zones[Zone2] = IntervalSeconds(60, 70, FALSE)
        /\ zones_out.zones[Zone3] = IntervalSeconds(70, 80, FALSE)
        /\ zones_out.zones[Zone4] = IntervalSeconds(80, 90, FALSE)
        /\ zones_out.zones[Zone5] = IntervalSeconds(90, 100, FALSE)
        /\ ( /\ heartrate_data = <<100, 150, 100>>
             /\ time_data = <<0, 60, 120>>
             /\ max_hr = 190 )
           => zones_out.zones = (Zone1 :> 60 @@ Zone2 :> 0 @@ Zone3 :> 60
                                 @@ Zone4 :> 0 @@ Zone5 :> 0)

\* A stream whose first sample is exactly at 60% (114 of 190) has been
\* classified: its interval went to Zone 2, the next to Zone 3, and the
\* final sample added nothing.
C1_Witness ==
    /\ zpc = "done"
    /\ max_hr = 190
    /\ heartrate_data = <<114, 150, 100>>
    /\ time_data = <<0, 60, 120>>
    /\ zones_out.kind = "map"
    /\ zones_out.zones[Zone1] = 0
    /\ zones_out.zones[Zone2] = 60
    /\ zones_out.zones[Zone3] = 60

\* C2: Zone 5 is upper-inclusive: an interval whose opening sample is
\* exactly at max_hr (100%) is attributed to Zone 5, while a percentage
\* exactly at the upper bound of Zones 1-4 goes to the next zone up.
C2_Zone5UpperInclusive ==
    ZonesReturned =>
        /\ zones_out.kind = "map"
        /\ zones_out.zones[Zone1] = IntervalSeconds(50, 60, FALSE)
        /\ zones_out.zones[Zone2] = IntervalSeconds(60, 70, FALSE)
        /\ zones_out.zones[Zone3] = IntervalSeconds(70, 80, FALSE)
        /\ zones_out.zones[Zone4] = IntervalSeconds(80, 90, FALSE)
        /\ zones_out.zones[Zone5] = IntervalSeconds(90, 100, TRUE)

ZoneSum == SumFn(zones_out.zones, DOMAIN zones_out.zones)

StreamDuration == time_data[Len(time_data)] - time_data[1]

C4_MismatchAlwaysFails ==
    (zpc = "done" /\ Len(heartrate_data) # Len(time_data)) =>
        zones_out.kind = "ValueError"

\* C4 amended: it fails with a validation error for every pair of non-empty
\* streams whose lengths differ, and returns the empty map, without an
\* error, when either stream is empty; a zone map is only ever computed
\* from two streams of equal length.
C4_MismatchFails ==
    zpc = "done" =>
        /\ ( /\ Len(heartrate_data) # Len(time_data)
             /\ Len(heartrate_data) > 0
             /\ Len(time_data) > 0 ) => zones_out.kind = "ValueError"
        /\ (Len(heartrate_data) = 0 \/ Len(time_data) = 0) =>
               (zones_out.kind = "empty" /\ zones_out.zones = EmptyMap)
        /\ zones_out.kind = "map" => Len(heartrate_data) = Len(time_data)

\* Two heart-rate samples against three timestamps were rejected.
C4_Witness ==
    /\ zpc = "done"
    /\ Len(heartrate_data) = 2
    /\ Len(time_data) = 3
    /\ zones_out.kind = "ValueError"

---------------------------------------------------------------------------
(* Claims about calculate_relative_effort, checked under SpecEffort.       *)

Seconds(z) == IF z \in DOMAIN zone_durations THEN zone_durations[z] ELSE 0

\* C5: calculate_relative_effort returns the sum over zones of
\* duration_seconds/60 x multiplier, multipliers 1..5 for Zones 1..5,
\* rounded to one decimal (the tenth nearest to it, within 0.05); an
\* all-zero or empty map scores 0.
C5_EffortFormula ==
    epc = "scored" =>
        LET s == 1 * Seconds(Zone1) + 2 * Seconds(Zone2) + 3 * Seconds(Zone3)
                 + 4 * Seconds(Zone4) + 5 * Seconds(Zone5)
        IN  /\ 6 * relative_effort - s \in -3..3
            /\ (\A z \in DOMAIN zone_durations : zone_durations[z] = 0)
                   => relative_effort = 0

\* 2 s in Zone 3 and 1 s in Zone 5 (11/60 = 0.18 points) scored 0.2.
C5_Witness ==
    /\ epc = "scored"
    /\ zone_durations = (Zone1 :> 0 @@ Zone2 :> 0 @@ Zone3 :> 2
                         @@ Zone4 :> 0 @@ Zone5 :> 1)
    /\ relative_effort = 2

\* The map scored now is the map scored before with one zone longer.
OneZoneGrew == epc = "scored" /\ last_added.seconds > 0

\* C6: the score is monotonically non-decreasing: of two maps that agree on
\* every zone but one, where the second is longer, the second scores at
\* least as much as the first.
C6_Monotone == OneZoneGrew => relative_effort >= prev_relative_effort

\* Zone 1 grew from 3 s to 9 s and the score stayed at 0.1.
C6_Witness ==
    /\ OneZoneGrew
    /\ last_added = [zone |-> Zone1, seconds |-> 6]
    /\ zone_durations[Zone1] = 9
    /\ TotalSeconds(zone_durations) = 9
    /\ prev_relative_effort = 1
    /\ relative_effort = 1

\* C7 as stated: the score is non-negative and strictly increasing: adding
\* any positive number of seconds to a single zone gives a strictly larger
\* score.
C7_StrictlyIncreasing ==
    /\ epc = "scored" => relative_effort >= 0
    /\ OneZoneGrew => relative_effort > prev_relative_effort

\* C7 amended: the score is non-negative and non-decreasing in each zone's
\* duration, and strictly larger whenever the added seconds times the
\* zone's multiplier exceed 6 (the unrounded score grows by more than 0.1).
C7_IncreasingBeyondRounding ==
    /\ epc = "scored" => relative_effort >= 0
    /\ OneZoneGrew =>
           /\ relative_effort >= prev_relative_effort
           /\ (last_added.seconds * ZONE_EFFORT_MULTIPLIERS[last_added.zone] > 6)
                  => relative_effort > prev_relative_effort

\* Zone 1 grew by 7 s and the score rose.
C7_Witness ==
    /\ OneZoneGrew
    /\ last_added = [zone |-> Zone1, seconds |-> 7]
    /\ relative_effort > prev_relative_effort

---------------------------------------------------------------------------
(* Claims about the max-heart-rate estimators and activity_analyzer.main,  *)
(* checked under SpecMaxHr.                                                *)

Age == current_year - birth_year.year

\* The birth year is there, numeric, gives an age in [10,100] and a max_hr
\* in [120,220].
BirthYearUsable ==
    /\ birth_year.kind = "int"
    /\ Age >= 10 /\ Age <= 100
    /\ 220 - Age >= 120 /\ 220 - Age <= 220

\* C8: the estimator computes max_hr = 220 - (current_year - birth_year)
\* and yields no max_hr whenever the birth year is absent, non-numeric,
\* gives an age outside [10,100] or a max_hr outside [120,220]; so every
\* max_hr that zones or effort are classified with lies in [120,220].
C8_MaxHrAlwaysSane ==
    /\ spc = "done" =>
           story_max_hr = IF BirthYearUsable
                          THEN [kind |-> "int", value |-> 220 - Age]
                          ELSE [kind |-> "None", value |-> 0]
    /\ mpc \in {"constructed", "exit0"} =>
           /\ BirthYearUsable
           /\ max_hr = 220 - Age
           /\ max_hr \in 120..220

\* C9: a missing or invalid birth year is never fatal to the whole
\* analysis: the analysis of an activity of the index still completes and
\* returns its results instead of the analyzer aborting.
C9_BirthYearNeverFatal ==
    ( /\ mpc \in {"exit0", "exit1"}
      /\ activity_in_index
      /\ birth_year.kind # "int" )
        => (mpc = "exit0" /\ analysis.kind = "record")

---------------------------------------------------------------------------
(* Claims about _determine_effort_level, checked under SpecLevel.          *)

LevelMaxHr == 220 - Age

HrBasedMode ==
    /\ lpc = "done"
    /\ ~ row["hr_stream_avg"].isna
    /\ row["hr_stream_avg"].value # 0
    /\ birth_year.kind = "int"
    /\ Age >= 10
    /\ Age <= 100

\* C11: in HR-based mode the ratio avg_hr / max_hr decides: below 70% is
\* easy (the band 60%-70% is folded into easy), from 70% up to but excluding
\* 80% moderate, from 80% up to but excluding 90% hard, and 90% or more
\* very_hard, the boundary belonging to the higher level.
C11_HrPercentageBands ==
    HrBasedMode =>
        LET hr == row["hr_stream_avg"].value
        IN  /\ (100 * hr < 70 * LevelMaxHr) <=> (effort_level = "easy")
            /\ (70 * LevelMaxHr <= 100 * hr /\ 100 * hr < 80 * LevelMaxHr)
                   <=> (effort_level = "moderate")
            /\ (80 * LevelMaxHr <= 100 * hr /\ 100 * hr < 90 * LevelMaxHr)
                   <=> (effort_level = "hard")
            /\ (90 * LevelMaxHr <= 100 * hr) <=> (effort_level = "very_hard")

\* max_hr = 190 (born 1995, in 2025) and avg_hr = 171, exactly 90%, was
\* classified very_hard.
C11_Witness ==
    /\ HrBasedMode
    /\ LevelMaxHr = 190
    /\ row["hr_stream_avg"] = Num(171)
    /\ effort_level = "very_hard"

SpeedBasedMode ==
    /\ lpc = "done"
    /\ row["hr_stream_avg"].isna \/ row["hr_stream_avg"].value = 0

\* C12: in speed-based mode a Ride is easy below 15 km/h, moderate below
\* 25, hard below 35 and very_hard from 35 on; a Run is easy below 8,
\* moderate below 12, hard below 16 and very_hard from 16 on; every other
\* activity type is moderate whatever its speed.
C12_SpeedBands ==
    SpeedBasedMode =>
        LET v == row["average_speed_kmh"].value
            band(a, b, c) ==
                IF v < a THEN "easy"
                ELSE IF v < b THEN "moderate"
                ELSE IF v < c THEN "hard"
                ELSE "very_hard"
        IN  /\ row["type"] = "Ride" => effort_level = band(15, 25, 35)
            /\ row["type"] = "Run" => effort_level = band(8, 12, 16)
            /\ row["type"] \notin {"Ride", "Run"} => effort_level = "moderate"

\* A walk at 35 km/h without heart rate was classified moderate, and so
\* the type, not the speed, decided.
C12_Witness ==
    /\ SpeedBasedMode
    /\ row["type"] = "Walk"
    /\ row["average_speed_kmh"] = Num(35)
    /\ effort_level = "moderate"

---------------------------------------------------------------------------
(* Claims about _determine_terrain_type, checked under SpecTerrain.        *)

TerrainNames == {"flat", "rolling", "hilly", "mountainous"}

\* C13: the terrain classifier is total, it always returns one of the four
\* terrains and has no error path.  For a gain and a distance with
\* distance > 0 the ratio gain / distance_km decides: below 5 flat, below 15
\* rolling, below 30 hilly, otherwise mountainous; a distance of 0 or less
\* gives flat instead of a division by zero.
C13_TerrainTotal ==
    tpc = "done" =>
        /\ terrain_type \in TerrainNames
        /\ ( /\ "total_elevation_gain" \in DOMAIN terrain_row
             /\ ~ terrain_row["total_elevation_gain"].isna
             /\ ~ terrain_row["distance_km"].isna )
           => LET gain == terrain_row["total_elevation_gain"].value
                  metres == terrain_row["distance_km"].value
              IN  terrain_type =
                      ( CASE metres <= 0 -> "flat"
                          [] metres > 0 /\ 1000 * gain < 5 * metres -> "flat"
                          [] metres > 0 /\ 5 * metres <= 1000 * gain
                                /\ 1000 * gain < 15 * metres -> "rolling"
                          [] metres > 0 /\ 15 * metres <= 1000 * gain
                                /\ 1000 * gain < 30 * metres -> "hilly"
                          [] OTHER -> "mountainous" )

\* A row with 400 m of gain over a distance of zero was classified flat.
C13_Witness ==
    /\ tpc = "done"
    /\ "total_elevation_gain" \in DOMAIN terrain_row
    /\ terrain_row["total_elevation_gain"] = Num(400)
    /\ terrain_row["distance_km"] = Num(0)
    /\ terrain_type = "flat"

---------------------------------------------------------------------------
(* Claims about the variability analyzers, checked under SpecVariability.  *)

\* The coefficient v, a square num / den, rounds to r ten-thousandths:
\* (r - 1/2) / 10^4 <= sqrt(num / den) < (r + 1/2) / 10^4.
RoundsTo(v, r) ==
    /\ v.kind = "value"
    /\ (2 * r - 1) * (2 * r - 1) * v.den <= 400000000 * v.num
    /\ 400000000 * v.num < (2 * r + 1) * (2 * r + 1) * v.den

SpecExampleStreams ==
    /\ distance_data = <<0, 100, 300>>
    /\ speed_time_data = <<0, 10, 20>>

\* C14 as stated: on distance = [0, 100, 300] m and time = [0, 10, 20] s
\* the analyzers compute the speeds [36, 72] km/h and return a coefficient
\* of variation of approximately 0.2357.
C14_CoefficientNear02357 ==
    /\ (SpecExampleStreams /\ vspc = "done")
           => (story_speeds = <<36, 72>> /\ RoundsTo(story_speed_var, 2357))
    /\ (SpecExampleStreams /\ vepc = "done")
           => ( /\ enhanced_speeds = <<36, 72>>
                /\ RoundsTo(enhanced_speed_var, 2357) )

\* C14 (amended): on distance = [0, 100, 300] m and time = [0, 10, 20] s
\* the analyzers compute the speeds [36, 72] km/h and return the population
\* standard deviation 18 divided by the mean 54, which is 1/3, about 0.3333.
C14_CoefficientOneThird ==
    /\ (SpecExampleStreams /\ vspc = "done")
           => ( /\ story_speeds = <<36, 72>>
                /\ story_speed_var = [kind |-> "value", num |-> 1, den |-> 9]
                /\ RoundsTo(story_speed_var, 3333) )
    /\ (SpecExampleStreams /\ vepc = "done")
           => ( /\ enhanced_speeds = <<36, 72>>
                /\ enhanced_speed_var =
                       [kind |-> "value", num |-> 1, den |-> 9]
                /\ RoundsTo(enhanced_speed_var, 3333) )

\* Both analyzers have run on the example streams and returned 1/3.
C14_Witness ==
    /\ SpecExampleStreams
    /\ vspc = "done"
    /\ vepc = "done"
    /\ story_speeds = <<36, 72>>
    /\ story_speed_var.num = 1
    /\ story_speed_var.den = 9
    /\ enhanced_speed_var = story_speed_var

\* The positions i whose pair (i - 1, i) has a strictly positive time delta.
PositiveDeltaPositions ==
    { i \in 2..Len(speed_time_data) :
          speed_time_data[i] - speed_time_data[i - 1] > 0 }

\* The speed of the pair ending at position i: metres per second times 3.6.
PairSpeed(i) ==
    (18 * (distance_data[i] - distance_data[i - 1]))
        \div (5 * (speed_time_data[i] - speed_time_data[i - 1]))

\* The speeds of those pairs, in stream order.
RECURSIVE PairSpeedsUpTo(_)
PairSpeedsUpTo(i) ==
    IF i < 2 THEN << >>
    ELSE PairSpeedsUpTo(i - 1)
         \o ( IF i \in PositiveDeltaPositions THEN << PairSpeed(i) >>
              ELSE << >> )

\* The population variance over the squared mean of those speeds, as
\* (n * SUM x^2 - S^2) / S^2.
PopulationCoefficient ==
    LET P == PositiveDeltaPositions
        n == Cardinality(P)
        S == SumFn([i \in P |-> PairSpeed(i)], P)
        Q == SumFn([i \in P |-> PairSpeed(i) * PairSpeed(i)], P)
    IN  ValueVar(Fraction(n * Q - S * S, S * S))

PositiveDeltaMean ==
    /\ PositiveDeltaPositions # {}
    /\ SumFn([i \in PositiveDeltaPositions |-> PairSpeed(i)],
             PositiveDeltaPositions) > 0

EqualLengthStreams ==
    /\ Len(distance_data) = Len(speed_time_data)
    /\ Len(distance_data) >= 2

\* C15: for equal-length streams of at least 2 samples each analyzer
\* builds its speed list from exactly the consecutive pairs with a strictly
\* positive time delta, each speed (distance delta / time delta) x 3.6;
\* pairs with a zero or negative delta are skipped and nothing is divided
\* by zero; and what is returned for that list (non-empty, of positive
\* mean) is its population standard deviation divided by its mean.
C15_SpeedsOfPositiveDeltas ==
    /\ (EqualLengthStreams /\ vspc = "done")
           => ( /\ story_speeds = PairSpeedsUpTo(Len(speed_time_data))
                /\ story_speed_var.kind \in {"None", "value"}
                /\ PositiveDeltaMean
                       => story_speed_var = PopulationCoefficient )
    /\ (EqualLengthStreams /\ vepc = "done")
           => ( /\ enhanced_speeds = PairSpeedsUpTo(Len(speed_time_data))
                /\ enhanced_speed_var.kind \in {"None", "value"}
                /\ PositiveDeltaMean
                       => enhanced_speed_var = PopulationCoefficient )

\* On distance [0, 100, 300], time [10, 0, 20] the pair with the delta -10
\* was skipped and the pair with the delta 20 gave the one speed 36, whose
\* coefficient is 0.
C15_Witness ==
    /\ distance_data = <<0, 100, 300>>
    /\ speed_time_data = <<10, 0, 20>>
    /\ vspc = "done"
    /\ vepc = "done"
    /\ story_speeds = <<36>>
    /\ enhanced_speeds = <<36>>
    /\ story_speed_var = ZeroVar
    /\ enhanced_speed_var = ZeroVar

\* Fewer than 2 samples, mismatched lengths, no pair with a positive time
\* delta, or a mean speed of zero.
NotComputable ==
    \/ ~ EqualLengthStreams
    \/ PositiveDeltaPositions = {}
    \/ SumFn([i \in PositiveDeltaPositions |-> PairSpeed(i)],
             PositiveDeltaPositions) = 0

\* C16: whenever the variability is not computable every analyzer returns
\* the absent marker and never the number zero, and the activity's cell
\* speed_variability is still the absent marker, not zero, after
\* preprocessing.
C16_AbsentNeverZero ==
    /\ (NotComputable /\ vspc = "done")
           => (story_speed_var.kind = "None" /\ story_cell.kind = "nan")
    /\ (NotComputable /\ vepc = "done")
           => (enhanced_speed_var.kind = "None" /\ enhanced_cell.kind = "nan")

---------------------------------------------------------------------------
(* Claims about the timeframe context, checked under SpecTimeframe.        *)

IndexedActivities == { activity_index[k] : k \in DOMAIN activity_index }

Returned == { filtered_activities[k] : k \in DOMAIN filtered_activities }

\* Ordinal 1 is a Monday, so the weeks are the blocks of seven ordinals
\* 7k + 1 .. 7k + 7.
SameWeek(d1, d2) == (Ordinal(d1) - 1) \div 7 = (Ordinal(d2) - 1) \div 7

SameMonth(d1, d2) == d1.year = d2.year /\ d1.month = d2.month

SameYear(d1, d2) == d1.year = d2.year

YearMembers ==
    { a \in IndexedActivities : SameYear(a.start_date, target_date) }

\* The cap takes effect: a positive cap below the number of year members.
CapCuts ==
    /\ timeframe = "year"
    /\ max_activities.given
    /\ max_activities.n > 0
    /\ Cardinality(YearMembers) > max_activities.n

C18_YearCap ==
    fpc = "got" =>
        /\ (timeframe = "year" /\ max_activities.given) =>
               /\ Len(filtered_activities) <= max_activities.n
               /\ Returned \subseteq YearMembers
               /\ \/ Cardinality(Returned) = max_activities.n
                  \/ Returned = YearMembers
               /\ \A r \in Returned : \A y \in YearMembers \ Returned :
                      Ordinal(r.start_date) >= Ordinal(y.start_date)
        /\ timeframe = "week" =>
               Returned = { a \in IndexedActivities :
                                SameWeek(a.start_date, target_date) }
        /\ timeframe = "month" =>
               Returned = { a \in IndexedActivities :
                                SameMonth(a.start_date, target_date) }

NoMatch ==
    \A a \in IndexedActivities :
        CASE timeframe = "week" -> ~ SameWeek(a.start_date, target_date)
          [] timeframe = "month" -> ~ SameMonth(a.start_date, target_date)
          [] OTHER -> ~ SameYear(a.start_date, target_date)

\* C19: with no matching activity summarize_timeframe_activities returns
\* the explicit 'no activities' indicator, and each operation consuming it
\* (print_timeframe_summary, the context section of print_summary, main)
\* completes without raising.
C19_ZeroMatchesTolerated ==
    (NoMatch /\ fpc \in {"summarized", "print_summary",
                         "print_timeframe_summary", "main"})
        => (timeframe_summary.kind = "no activities" /\ tf_error = "")

Members == timeframe_summary.activities_list

TypeNames == DOMAIN timeframe_summary.activity_types

PerTypeSum(field) ==
    SumFn([t \in TypeNames |-> timeframe_summary.activity_types[t][field]],
          TypeNames)

MemberType(a) == IF "type" \in DOMAIN a THEN a.type ELSE "Unknown"

CountsAndTimesAgree ==
    /\ timeframe_summary.total_activities = Len(Members)
    /\ timeframe_summary.total_activities = PerTypeSum("count")
    /\ LET t == timeframe_summary.total_moving_time
       IN  /\ t.hours * 3600 + t.minutes * 60 + t.seconds = PerTypeSum("time")
           /\ t.minutes \in 0..59
           /\ t.seconds \in 0..59
    /\ \A k \in DOMAIN Members : MemberType(Members[k]) \in TypeNames
    /\ \A t \in TypeNames :
           timeframe_summary.activity_types[t].count =
               Cardinality({ k \in DOMAIN Members :
                                 MemberType(Members[k]) = t })

\* C20 as stated: in every non-empty summary total_activities is the
\* number of members and the sum of the per-type counts, the total
\* distance equals the sum of the per-type distances, the total moving
\* time equals the sum of the per-type times, and every member is counted
\* under exactly one type.
C20_TotalsEqualBreakdown ==
    timeframe_summary.kind = "summary" =>
        /\ CountsAndTimesAgree
        /\ 100 * timeframe_summary.total_distance_km = PerTypeSum("distance")

\* C20 (amended): as above, except that the total distance of the summary
\* is the sum of the per-type distances rounded to one decimal of a
\* kilometre: the two differ by at most 0.05 km.
C20_TotalsMatchBreakdown ==
    timeframe_summary.kind = "summary" =>
        /\ CountsAndTimesAgree
        /\ 100 * timeframe_summary.total_distance_km
               <= PerTypeSum("distance") + 50
        /\ PerTypeSum("distance")
               <= 100 * timeframe_summary.total_distance_km + 50

\* A week of one run of 5.02 km and one ride of 30.5 km: two types, one
\* activity each, 35.52 km by type and 35.5 km in total.
C20_Witness ==
    /\ fpc = "summarized"
    /\ timeframe_summary.kind = "summary"
    /\ timeframe_summary.total_activities = 2
    /\ TypeNames = {"Ride", "Run"}
    /\ PerTypeSum("distance") = 35520
    /\ timeframe_summary.total_distance_km = 355

---------------------------------------------------------------------------
(* The scalar heart rate in _determine_effort_level, under SpecLevel.      *)

ScalarHrOnly ==
    /\ lpc = "done"
    /\ row["hr_stream_avg"].isna
    /\ "average_heartrate" \in DOMAIN row
    /\ row["average_heartrate"].value > 0

NoHeartRateAtAll ==
    /\ row["hr_stream_avg"].isna \/ row["hr_stream_avg"].value = 0
    /\ "average_heartrate" \notin DOMAIN row

\* C28: an activity without a usable heart-rate stream but with a positive
\* scalar average_heartrate is classified from that scalar, by percentage
\* of max_hr when there is one and by the bpm thresholds otherwise, and not
\* from its speed; the speed decides only when there is neither a stream
\* average nor a scalar.
C28_ScalarHeartRateUsed ==
    /\ ScalarHrOnly =>
           LET hr == row["average_heartrate"].value
               max_hr_available ==
                   birth_year.kind = "int" /\ Age >= 10 /\ Age <= 100
           IN  effort_level =
                   IF max_hr_available
                   THEN HrPercentageLevel(hr, LevelMaxHr)
                   ELSE GenericHrLevel(hr)
    /\ (lpc = "done"
           /\ effort_level = SpeedLevel(row["type"],
                                        row["average_speed_kmh"].value)
           /\ effort_level # "moderate")
          => NoHeartRateAtAll \/ ~ row["hr_stream_avg"].isna

---------------------------------------------------------------------------
(* Claims about analyze_activity, checked under SpecAnalyze (C23 under     *)
(* SpecMaxHr, where main calls it).                                        *)

Analysed == mpc \in {"analysed", "raised", "summary"}

NoUsableStream ==
    \/ "heartrate" \notin activity_files
    \/ heartrate_data = << >>
    \/ "time" \notin activity_files
    \/ time_data = << >>

DetailDistance ==
    IF "distance" \in DOMAIN activity_detail
    THEN activity_detail["distance"] ELSE 0

\* C22: for an activity of the index with a detail file, a heart-rate or
\* time stream that is absent or empty does not make analyze_activity
\* fail: it returns a record with the basic fields of the detail (distance
\* in metres and in km to two decimals, the times as HH:MM:SS, the speed
\* in km/h, the elevation gain), empty zone-duration and zone-percentage
\* maps and a relative effort of 0.
C22_StreamlessRecord ==
    (Analysed /\ activity_in_index /\ "detail" \in activity_files
        /\ NoUsableStream)
        => /\ mpc # "raised"
           /\ error = ""
           /\ analysis.kind = "record"
           /\ ~ analysis.hr
           /\ analysis.zones = EmptyMap
           /\ analysis.hr_zone_percentages = EmptyMap
           /\ analysis.relative_effort = 0
           /\ analysis.basic.total_distance_m = DetailDistance
           /\ (2 * analysis.basic.total_distance_km - DetailDistance \div 5)
                  \in {-1, 0, 1}
           /\ IF DetailDistance = 20055
              THEN /\ analysis.basic.name = "Morning Ride"
                   /\ analysis.basic.total_distance_km \in {2005, 2006}
                   /\ analysis.basic.total_time
                          = [hours |-> 1, minutes |-> 2, seconds |-> 5]
                   /\ analysis.basic.moving_time
                          = [hours |-> 1, minutes |-> 0, seconds |-> 0]
                   /\ analysis.basic.average_speed_kmh = 2006
                   /\ analysis.basic.max_speed_kmh = 4444
                   /\ analysis.basic.elevation_gain_m = 120
              ELSE /\ analysis.basic.name = "Unknown"
                   /\ analysis.basic.total_distance_km = 0
                   /\ analysis.basic.average_speed_kmh = 0

C22_Witness ==
    /\ mpc = "analysed"
    /\ activity_in_index
    /\ "detail" \in activity_files
    /\ "time" \in activity_files
    /\ Len(time_data) = 2
    /\ heartrate_data = << >>
    /\ "heartrate" \in activity_files
    /\ analysis.kind = "record"
    /\ analysis.basic.total_distance_m = 20055

AnalyzerConstructed ==
    analyzer_calculate_max_hr(birth_year, current_year).kind = "int"

\* C23: analysing an identifier that is not in the index raises ValueError
\* to the caller: main ends with status 1, holds no analysis record and
\* does not call analyze_activity again.
C23_UnknownIdRaises ==
    (mpc \in {"exit0", "exit1"} /\ AnalyzerConstructed
        /\ ~ activity_in_index)
        => /\ mpc = "exit1"
           /\ error = "ValueError"
           /\ analysis = NoAnalysis
           /\ summary_string = NoSummaryString

C23_Witness ==
    /\ mpc = "exit1"
    /\ AnalyzerConstructed
    /\ ~ activity_in_index
    /\ error = "ValueError"

AttributedTime == SumFn(analysis.zones, DOMAIN analysis.zones)

Abs(n) == IF n < 0 THEN -n ELSE n

ListedZones ==
    { summary_string.HR_zones[k].zone :
          k \in 1..Len(summary_string.HR_zones) }

\* C30: with heart-rate data each zone percentage is the zone's duration
\* as a share of the time attributed to any zone, to one decimal (here in
\* tenths of a percent, within half a tenth of the exact share); with no
\* attributed time every percentage is 0; and the summary string lists the
\* zones with a percentage above 0 and no other, each once with that
\* percentage.
C30_ZoneShares ==
    /\ (mpc \in {"analysed", "summary"} /\ analysis.hr)
           => /\ DOMAIN analysis.hr_zone_percentages = ZoneNames
              /\ \A z \in ZoneNames :
                     LET p == analysis.hr_zone_percentages[z]
                         d == analysis.zones[z]
                     IN  IF AttributedTime = 0 THEN p = 0
                         ELSE 2 * Abs(p * AttributedTime - 1000 * d)
                                  <= AttributedTime
    /\ (mpc = "summary" /\ analysis.hr)
           => /\ ListedZones
                     = { zone_short(z) :
                             z \in { y \in ZoneNames :
                                       analysis.hr_zone_percentages[y] > 0 } }
              /\ Len(summary_string.HR_zones) = Cardinality(ListedZones)
              /\ \A k \in 1..Len(summary_string.HR_zones) :
                     \E z \in ZoneNames :
                         /\ summary_string.HR_zones[k].zone = zone_short(z)
                         /\ summary_string.HR_zones[k].percentage
                                = analysis.hr_zone_percentages[z]
    /\ (mpc = "summary" /\ ~ analysis.hr)
           => summary_string.HR_zones = << >>

\* Of 180 s of stream 60 s fall in zone 1 and 120 s in no zone: zone 1
\* holds 100.0 % and is the one zone listed.
C30_Witness ==
    /\ mpc = "summary"
    /\ analysis.hr
    /\ time_data = <<0, 60, 180>>
    /\ AttributedTime = 60
    /\ analysis.hr_zone_percentages[Zone1] = 1000
    /\ ListedZones = {"Active_Recovery"}

---------------------------------------------------------------------------
(* The anchor in its own timeframe, under SpecTimeframe.                   *)

TimeframeReturned == fpc \in {"got", "summarized", "main"}

AnchorActivities ==
    { a \in IndexedActivities : a.start_date = target_date }

MoreRecentYearMembers(a) ==
    { b \in YearMembers : Ordinal(b.start_date) > Ordinal(a.start_date) }

---------------------------------------------------------------------------
(* Claims about generate_activity_story, checked under SpecStory.          *)

ClauseNames(parts) == [k \in DOMAIN parts |-> parts[k].clause]

Gain == story_row["total_elevation_gain"]

GainAboveFifty == ~ Gain.isna /\ Gain.value > 500

\* The average heart rate is the one the function reads, avg_hr: the
\* stream average of the row.
AverageHrPresentAndPositive ==
    ~ story_row["hr_stream_avg"].isna /\ story_row["hr_stream_avg"].value > 0

C26_OnlyWeatherVaries ==
    gpc = "twice" =>
        /\ weather_first = weather_second => story_first = story_second
        /\ story_first.kind = story_second.kind
        /\ story_first.main_sentence = story_second.main_sentence
        /\ Len(story_first.context_parts) = Len(story_second.context_parts)
        /\ story_first.context_parts[1].text = weather_first
        /\ story_second.context_parts[1].text = weather_second
        /\ \A k \in DOMAIN story_first.context_parts :
               IF k = 1
               THEN [story_first.context_parts[1]
                         EXCEPT !.text = weather_second]
                        = story_second.context_parts[1]
               ELSE story_first.context_parts[k]
                        = story_second.context_parts[k]

C26_Witness ==
    /\ gpc = "twice"
    /\ weather_first = "foggy morning"
    /\ weather_second = "clear day"
    /\ story_first # story_second
    /\ story_first.context_parts[2] = story_second.context_parts[2]

---------------------------------------------------------------------------
(* Claims about the batches, checked under SpecBatch.                      *)

InStoryBatch == bpc \in {"loop", "store", "returned"}

RowsDone == { activities_df[j] : j \in 1..idx }

\* The positions of the upsert calls at which an identifier was sent.
UpsertsOf(id) ==
    { <<c, m>> \in (DOMAIN upsert_calls) \X (1..50) :
          /\ m <= Len(upsert_calls[c].ids)
          /\ upsert_calls[c].ids[m] = id }

\* C29: after every iteration stories, metadatas and ids have one length
\* and their k-th entries belong to one activity (the story tells that
\* activity's distance, the metadata carries its id, distance and date),
\* failures or not; every upsert sends at most 50 consecutive entries of
\* the three lists, the same positions of each; and when no upsert failed
\* every generated story has been sent exactly once.
C29_AlignedAndBatched ==
    /\ InStoryBatch =>
           /\ Len(stories) = Len(ids)
           /\ Len(metadatas) = Len(ids)
           /\ \A k \in DOMAIN ids :
                  \E r \in RowsDone :
                      /\ ids[k] = ToString(r["id"])
                      /\ metadatas[k].activity_id = ids[k]
                      /\ metadatas[k].distance_km = r["distance_km"]
                      /\ metadatas[k].date = r["start_date_local"]
                      /\ stories[k].main_sentence[1].number
                             = 10 * r["id"] + 3
           /\ \A c \in DOMAIN upsert_calls :
                  LET call == upsert_calls[c]
                      from == 50 * (c - 1) + 1
                      to == 50 * (c - 1) + Len(call.ids)
                  IN  /\ Len(call.ids) \in 1..50
                      /\ to <= Len(ids)
                      /\ call.ids = SubSeq(ids, from, to)
                      /\ call.documents = SubSeq(stories, from, to)
                      /\ call.metadatas = SubSeq(metadatas, from, to)
                      /\ c < Len(upsert_calls) => Len(call.ids) = 50
    /\ (bpc = "returned" /\ connected /\ ~ store_error) =>
           \A k \in DOMAIN ids : Cardinality(UpsertsOf(ids[k])) = 1

\* 110 activities of which 7 failed: 103 stories went out in batches of 50,
\* 50 and 3.
C29_Witness ==
    /\ bpc = "returned"
    /\ ~ store_error
    /\ Len(activities_df) = 110
    /\ Len(story_errors) = 7
    /\ Len(upsert_calls) = 3
    /\ Len(upsert_calls[3].ids) = 3

Tellable(r) == r["type"] # MissingType /\ r["start_date_local"] # NaT

SeqRange(q) == { q[k] : k \in DOMAIN q }

\* The rows of generate_and_store_stories: the stories cover the rows that
\* did not fail, each failing row is reported.
StoryBatchSkipsFailures ==
    (bpc \in {"store", "returned"} /\ connected) =>
        /\ SeqRange(ids)
               = { ToString(r["id"]) :
                       r \in { x \in SeqRange(activities_df) : Tellable(x) } }
        /\ SeqRange(story_errors)
               = { r["id"] :
                       r \in { x \in SeqRange(activities_df) : ~ Tellable(x) } }
        /\ Len(ids) + Len(story_errors) = Len(activities_df)

\* The context activities of main: every member of the timeframe but the
\* anchor is analysed or, when its analysis raises (10 has no detail file,
\* the streams of 11 differ in length), reported.
ContextLoopSkipsFailures ==
    fpc = "main" =>
        LET others == { a["id"] : a \in { x \in Returned :
                                            x["start_date"] # target_date } }
        IN  /\ SeqRange(context_analysed) = others \ {10, 11}
            /\ SeqRange(context_failed) = others \cap {10, 11}
            /\ Len(context_analysed) + Len(context_failed)
                   = Cardinality(others)

\* The index entries of get_activities_by_timeframe: the call returns, to
\* main as well, and returns the members among the entries whose date
\* parses.
TimeframeScanSkipsFailures ==
    /\ fpc # "main_exit1"
    /\ fpc \in {"got", "raised"} =>
        /\ fpc = "got"
        /\ tf_error = ""
        /\ \A a \in IndexedActivities :
               (a["start_date"] # NotADate /\ timeframe = "week"
                   /\ SameWeek(a["start_date"], target_date))
                   => a \in Returned

\* C21: one failing activity does not abort a batch: the rows of
\* generate_and_store_stories, the context activities of main and the index
\* entries examined by get_activities_by_timeframe that fail are skipped,
\* and the output covers exactly the others.
C21_FailuresSkipped ==
    /\ StoryBatchSkipsFailures
    /\ ContextLoopSkipsFailures
    /\ TimeframeScanSkipsFailures

---------------------------------------------------------------------------
(* C24 *)

\* The calls made so far include one of each of the four methods.
EveryMethodCalled == \A m \in DOMAIN returned : returned[m] # {}

\* Calls of one method with the same arguments had the same outcome.
SameArgsSameResult ==
    \A m \in DOMAIN returned :
        \A c, d \in returned[m] : c.args = d.args => c.result = d.result

\* C24: the classifier, the scorer and the timeframe aggregator are
\* idempotent and free of side effects.  After any sequence of calls of
\* calculate_hr_zones, calculate_relative_effort,
\* get_activities_by_timeframe and summarize_timeframe_activities the
\* analyzer's state (the contents and order of activity_index, max_hr, the
\* zone tables) is what it was after construction, and a method called
\* again with the same arguments returned (or raised) the same as before.
C24_CallsLeaveNoTrace ==
    rpc = "calls" =>
        /\ AnalyzerState = constructed
        /\ SameArgsSameResult

\* All four methods were called, one of them again with arguments it had
\* been given before, on an index that is not in the order of its dates.
C24_Witness ==
    /\ rpc = "calls"
    /\ EveryMethodCalled
    /\ repeated
    /\ ncalls >= 5
    /\ activity_index # << >>
    /\ IndexParses(activity_index)
    /\ activity_index # SortDescending(activity_index)
    /\ \E c \in returned["summarize_timeframe_activities"] :
           c.result.kind = "dict" /\ c.result.value.kind = "summary"

=============================================================================
